---------------------------- MODULE Spec2Model ----------------------------
(***************************************************************************)
(* Verification model of the ideation engine's orchestration core:         *)
(*   - the schema-validated LLM call (utils/llm.py),                       *)
(*   - the ideate -> review -> refine orchestration (app.py),              *)
(*   - the generic enrichment pass over a row set (app.py).                *)
(* Each part has its own specification (SpecLLM, SpecOrch, SpecEnrich);    *)
(* the variables of the parts a specification does not run stay at their   *)
(* idle values.                                                            *)
(***************************************************************************)
EXTENDS Integers, Sequences, FiniteSets, TLC

VARIABLES
    \* ---- call_llm_with_schema (utils/llm.py) ----
    l_pc,           \* position in the function: loop / invoke / check / returned / raised
    max_attempts,   \* the max_attempts argument
    script,         \* what the remote endpoint does on the 1st, 2nd, ... invocation
    attempt,        \* the local variable attempt
    invocations,    \* number of call_llm invocations made by this call
    raw,            \* the local variable raw (last reply text)
    err,            \* the local variable err (last parse / validation error)
    user_prompt,    \* "orig" or "fix": which prompt the next invocation carries
    l_result,       \* the returned object
    l_exc,          \* the exception the call ended with
    l_exc_msg,      \* what the message of that exception is built from
    \* ---- ideate_review_refactor (app.py) ----
    o_pc,           \* phase: ideation / review / refine / returned / raised / idle
    workflow,       \* the workflow argument
    existing,       \* titles of existing_concepts, in order
    iTask,          \* per ideation agent: state of its _for_agent task
    ideaCalls,      \* ideation agents whose model was invoked by _for_agent
    chunks,         \* per ideation agent: what its _for_agent task returned
    o_raw,          \* the local variable raw after dedup and key normalisation
    feedback,       \* the local variable feedback: title -> list of comments
    rTask,          \* per reviewer: state of its _review task
    revReply,       \* per reviewer: what its agent call produced
    fTask,          \* per ideation agent: state of its _refine task
    refCalls,       \* per ideation agent: number of refine invocations of the agent
    payload,        \* per ideation agent: the payload of its refine invocation
    fChunks,        \* per ideation agent: what its _refine task returned
    refReply,       \* per ideation agent: what its refine call returned, and whether it did
    ret,            \* the returned triple (raw, feedback, refined)
    \* ---- _enrich_df_async (app.py) ----
    e_pc,           \* running / returned / raised / idle
    agent_name,     \* the agent_name argument of the pass
    df,             \* the data frame: a sequence of rows, each column -> cell
    df_in,          \* df as it was when the pass started
    eTask,          \* per row: state of its _enrich_one task
    results,        \* per row: what its _enrich_one task returned
    \* ---- regeneration block (app.py) ----
    r_pc,           \* start / loop / rerun / idle
    graph,          \* SECTION_DEPENDENCIES: section -> its dependents
    edited,         \* regen["field"]
    cascade,        \* the cascade set
    concept,        \* regen["draft"], the document being patched
    concept_in,     \* the document as the regeneration received it
    previous_draft, \* st.session_state["_previous_draft"]
    position,       \* index of the next agent of the loop over AGENTS
    prompted,       \* per invoked agent: the sections its role prompt names
    replies,        \* per agent that returned: its raw_patch
    warnings,       \* agents reported by st.warning
    last_diff,      \* st.session_state["last_diff"]
    flash_sections, \* st.session_state["flash_sections"]
    \* ---- the fuzzy dedupe of ideate_review_refactor, on its own ----
    d_pc,           \* start / filtered / refiltered / idle
    candidates,     \* raw before the dedupe
    existing_titles,\* the titles of existing_concepts
    d_filtered,     \* filtered: raw after the dedupe
    d_refiltered,   \* the dedupe applied to d_filtered
    \* ---- _add_validated_trl_async (app.py) ----
    t_pc,           \* running / returned / idle
    trl_df,         \* the data frame: a sequence of rows
    trl_df_in,      \* the data frame as the pass received it
    trlTask,        \* per row: state of its _validate task
    evidence,       \* per row: the source_url of each evidence item gathered
    trl_results,    \* per row: the triple its _validate task returned
    trl_cited,      \* per row: the "citations" list of the TRL reply of its task
    \* ---- _flatten_solution (app.py), on its own ----
    flat_pc,        \* start / done / idle
    flat_agent,     \* the agent argument
    flat_sol,       \* the sol argument
    flat_row        \* the row returned

llmVars == <<l_pc, max_attempts, script, attempt, invocations, raw, err,
             user_prompt, l_result, l_exc, l_exc_msg>>

orchVars == <<o_pc, workflow, existing, iTask, ideaCalls, chunks, o_raw, feedback,
              rTask, revReply, fTask, refCalls, payload, fChunks, refReply, ret>>

enrichVars == <<e_pc, agent_name, df, df_in, eTask, results>>

regenVars == <<r_pc, graph, edited, cascade, concept, concept_in, previous_draft, position,
               prompted, replies, warnings, last_diff, flash_sections>>

dedupVars == <<d_pc, candidates, existing_titles, d_filtered, d_refiltered>>

trlVars == <<t_pc, trl_df, trl_df_in, trlTask, evidence, trl_results, trl_cited>>

flatVars == <<flat_pc, flat_agent, flat_sol, flat_row>>

vars == <<llmVars, orchVars, enrichVars, regenVars, dedupVars, trlVars, flatVars>>

None == "<none>"

(***************************************************************************)
(* Texts are sequences of tokens:                                          *)
(*   "{" "}" "[" "]"  brackets,                                            *)
(*   "r"  a member carrying the schema's required key,                     *)
(*   "o"  any other JSON member,                                           *)
(*   "p"  prose that is not JSON,                                          *)
(*   "F"  a markdown code fence (``` or ```json).                          *)
(***************************************************************************)
Openers == {"{", "["}
Closers == {"}", "]"}

\* Bound: the largest attempt budget explored.
MaxBudget == 3

\* ------------------------------------------------------------------------
\* extract_json
\* ------------------------------------------------------------------------

\* re.sub(r"^```(?:json)?\s*|\s*```$", "", blob.strip()): a fence at the very
\* start and a fence at the very end are removed, nothing in between.
StripFences(blob) ==
    LET a == IF Len(blob) > 0 /\ blob[1] = "F" THEN Tail(blob) ELSE blob
    IN  IF Len(a) > 0 /\ a[Len(a)] = "F" THEN SubSeq(a, 1, Len(a) - 1) ELSE a

\* txt.find of the first "{" or "[" (0 when there is none).
FirstOpener(txt) ==
    IF \E i \in 1..Len(txt) : txt[i] \in Openers
    THEN CHOOSE i \in 1..Len(txt) :
            /\ txt[i] \in Openers
            /\ \A j \in 1..(i - 1) : txt[j] \notin Openers
    ELSE 0

\* The brace-count scan: the index where the stack first empties, 0 if never.
\* The scan counts depth only; it does not compare bracket kinds.
RECURSIVE ScanEnd(_, _, _)
ScanEnd(txt, i, depth) ==
    IF i > Len(txt) THEN 0
    ELSE IF txt[i] \in Openers THEN ScanEnd(txt, i + 1, depth + 1)
    ELSE IF txt[i] \in Closers
         THEN IF depth = 0 THEN 0
              ELSE IF depth = 1 THEN i
              ELSE ScanEnd(txt, i + 1, depth - 1)
    ELSE ScanEnd(txt, i + 1, depth)

\* json.loads on the span: brackets must nest with matching kinds and nothing but
\* JSON members may stand between them.
RECURSIVE WellFormed(_, _)
WellFormed(span, stack) ==
    IF span = <<>> THEN stack = <<>>
    ELSE LET c == Head(span) IN
         IF c \in Openers THEN WellFormed(Tail(span), <<c>> \o stack)
         ELSE IF c \in Closers
              THEN /\ stack # <<>>
                   /\ (IF c = "}" THEN Head(stack) = "{" ELSE Head(stack) = "[")
                   /\ WellFormed(Tail(span), Tail(stack))
         ELSE c \in {"r", "o"} /\ WellFormed(Tail(span), stack)

\* Members at nesting depth 1 of a well-formed span.
RECURSIVE TopMembers(_, _)
TopMembers(span, depth) ==
    IF span = <<>> THEN {}
    ELSE LET c == Head(span) IN
         IF c \in Openers THEN TopMembers(Tail(span), depth + 1)
         ELSE IF c \in Closers THEN TopMembers(Tail(span), depth - 1)
         ELSE (IF depth = 1 THEN {c} ELSE {}) \cup TopMembers(Tail(span), depth)

\* The value json.loads builds.
JsonLoads(span) ==
    [type |-> IF span[1] = "{" THEN "object" ELSE "array",
     members |-> TopMembers(span, 0)]

\* Mutant: the stripped text must be one JSON value and nothing else.
ExtractJsonWholeText(blob) ==
    LET txt == StripFences(blob)
    IN  IF /\ txt # <<>>
           /\ txt[1] \in Openers
           /\ ScanEnd(txt, 1, 0) = Len(txt)
           /\ WellFormed(txt, <<>>)
        THEN [ok |-> TRUE, obj |-> JsonLoads(txt)]
        ELSE [ok |-> FALSE, why |-> "json.loads"]

\* extract_json(blob): [ok |-> TRUE, obj |-> ...] or [ok |-> FALSE, why |-> ...].
ExtractJson(blob) ==
    LET txt == StripFences(blob)
        start == FirstOpener(txt)
        end == IF start = 0 THEN 0 ELSE ScanEnd(txt, start, 0)
    IN  IF start = 0 THEN [ok |-> FALSE, why |-> "no JSON found"]
        ELSE IF end = 0 THEN [ok |-> FALSE, why |-> "unbalanced"]
        ELSE IF ~WellFormed(SubSeq(txt, start, end), <<>>)
             THEN [ok |-> FALSE, why |-> "json.loads"]
        ELSE [ok |-> TRUE, obj |-> JsonLoads(SubSeq(txt, start, end))]

\* jsonschema.validate(obj, schema) for an agent schema: an object holding the
\* required key (every agent schema is {"type": "object", "required": [...]}).
SchemaValid(obj) == obj.type = "object" /\ "r" \in obj.members

\* ------------------------------------------------------------------------
\* call_llm
\* ------------------------------------------------------------------------

\* What one invocation of the endpoint can do.
Contents ==
    { <<"{", "r", "}">>,                       \* clean valid JSON
      <<"F", "{", "r", "}", "F", "p">>,        \* fenced JSON, then commentary
      <<"p">>,                                 \* prose only
      <<"{", "r">>,                            \* truncated
      <<"{", "r", "]">>,                       \* balanced by count, not by kind
      <<"{", "o", "}">> }                      \* JSON without the required key
Outcomes ==
    [kind : {"200"}, body : Contents]
      \cup [kind : {"non200"}, body : {<<"{", "o", "}">>}]
      \cup [kind : {"nokey", "exception"}, body : {<<>>}]

\* call_llm(...): the text it returns, or Raise when requests.post raises.
Raise == <<"<raise>">>
CallLlm(outcome) ==
    CASE outcome.kind = "nokey" -> <<"p">>                      \* "Error: Azure key missing"
      [] outcome.kind = "exception" -> Raise                    \* requests.post raised
      [] outcome.kind = "200" -> outcome.body                   \* message content
      [] outcome.kind = "non200" -> <<"p">> \o outcome.body     \* "Error <status>: <body>"

\* ------------------------------------------------------------------------
\* call_llm_with_schema
\* ------------------------------------------------------------------------

\* The fields the RuntimeError's message is formatted from:
\* f"{deployment}: failed to produce schema-valid JSON after {max_attempts} attempts".
ExhaustedMessage(m, last_raw, last_err) == [deployment |-> "deployment", max_attempts |-> m]

\* Mutants of the loop test.
LoopGuardShort(a, m) == a < m
LoopGuardLong(a, m) == a <= m + 1

\* while attempt <= max_attempts
LoopGuard(a, m) == a <= m

LLMStart ==
    /\ l_pc = "loop"
    /\ max_attempts \in 0..MaxBudget
    /\ script \in [1..(MaxBudget + 1) -> Outcomes]
    /\ attempt = 1
    /\ invocations = 0
    /\ raw = None
    /\ err = None
    /\ user_prompt = "orig"
    /\ l_result = None
    /\ l_exc = None
    /\ l_exc_msg = None

\* The while test, and the raise after the loop.
LLMLoop ==
    /\ l_pc = "loop"
    /\ IF LoopGuard(attempt, max_attempts)
       THEN l_pc' = "invoke" /\ l_exc' = l_exc /\ l_exc_msg' = l_exc_msg
       ELSE /\ l_pc' = "raised"
            /\ l_exc' = "RuntimeError"
            /\ l_exc_msg' = ExhaustedMessage(max_attempts, raw, err)
    /\ UNCHANGED <<max_attempts, script, attempt, invocations, raw, err,
                   user_prompt, l_result>>

\* raw = call_llm(...)
LLMInvoke ==
    /\ l_pc = "invoke"
    /\ invocations' = invocations + 1
    /\ LET text == CallLlm(script[invocations + 1]) IN
       IF text = Raise
       THEN l_pc' = "raised" /\ l_exc' = "transport" /\ raw' = raw
       ELSE l_pc' = "check" /\ l_exc' = l_exc /\ raw' = text
    /\ UNCHANGED <<max_attempts, script, attempt, err, user_prompt, l_result, l_exc_msg>>

\* extract_json + jsonschema.validate; on failure the repair prompt and attempt += 1.
LLMCheck ==
    /\ l_pc = "check"
    /\ LET x == ExtractJson(raw) IN
       IF x.ok /\ SchemaValid(x.obj)
       THEN /\ l_pc' = "returned"
            /\ l_result' = x.obj
            /\ UNCHANGED <<attempt, err, user_prompt>>
       ELSE /\ l_pc' = "loop"
            /\ err' = [attempt |-> attempt,
                       what |-> IF x.ok THEN "schema validation" ELSE x.why]
            /\ user_prompt' = "fix"
            /\ attempt' = attempt + 1
            /\ l_result' = l_result
    /\ UNCHANGED <<max_attempts, script, invocations, raw, l_exc, l_exc_msg>>


\* ------------------------------------------------------------------------
\* Strings (titles, comments): sequences of one-character strings
\* ------------------------------------------------------------------------

\* str.lower() on one character.
Lower(c) == CASE c = "A" -> "a" [] c = "B" -> "b" [] OTHER -> c

\* Characters kept by re.sub(r'[^a-z0-9]', '', ...).
AlnumLower == {"a", "b", "c", "d", "x", "y", "z"}

\* _normalize_title(t): lower-case, then drop every non-alphanumeric character.
RECURSIVE NormalizeTitle(_)
NormalizeTitle(t) ==
    IF t = <<>> THEN <<>>
    ELSE LET c == Lower(Head(t)) IN
         (IF c \in AlnumLower THEN <<c>> ELSE <<>>) \o NormalizeTitle(Tail(t))

\* str.strip(): drop leading and trailing whitespace.
RECURSIVE StripLeft(_)
StripLeft(t) == IF t # <<>> /\ Head(t) = " " THEN StripLeft(Tail(t)) ELSE t
RECURSIVE StripRight(_)
StripRight(t) ==
    IF t # <<>> /\ t[Len(t)] = " " THEN StripRight(SubSeq(t, 1, Len(t) - 1)) ELSE t
Strip(t) == StripRight(StripLeft(t))

\* ------------------------------------------------------------------------
\* difflib.SequenceMatcher(None, a, b).ratio() >= 0.75
\* ------------------------------------------------------------------------

\* Length of the common run of a from i and b from j (below ahi and bhi).
RECURSIVE RunLen(_, _, _, _, _, _)
RunLen(a, i, ahi, b, j, bhi) ==
    IF i < ahi /\ j < bhi /\ a[i] = b[j]
    THEN 1 + RunLen(a, i + 1, ahi, b, j + 1, bhi)
    ELSE 0

\* find_longest_match: the longest block, earliest in a, then earliest in b.
LongestMatch(a, alo, ahi, b, blo, bhi) ==
    LET pairs == (alo..(ahi - 1)) \X (blo..(bhi - 1))
        len(p) == RunLen(a, p[1], ahi, b, p[2], bhi)
        best == CHOOSE p \in pairs :
                   \A q \in pairs :
                       \/ len(q) < len(p)
                       \/ len(q) = len(p) /\ (p[1] < q[1] \/ (p[1] = q[1] /\ p[2] <= q[2]))
    IN  [i |-> best[1], j |-> best[2], k |-> len(best)]

\* get_matching_blocks: total size of the matching blocks, found recursively to
\* the left and to the right of the longest one.
RECURSIVE MatchTotal(_, _, _, _, _, _)
MatchTotal(a, alo, ahi, b, blo, bhi) ==
    IF alo >= ahi \/ blo >= bhi THEN 0
    ELSE LET m == LongestMatch(a, alo, ahi, b, blo, bhi) IN
         IF m.k = 0 THEN 0
         ELSE m.k + MatchTotal(a, alo, m.i, b, blo, m.j)
                  + MatchTotal(a, m.i + m.k, ahi, b, m.j + m.k, bhi)

\* The dedup threshold 0.75 as a fraction.
ThresholdNum == 3
ThresholdDen == 4

\* ratio() = 2.0 * matches / (len(a) + len(b)), 1.0 when both are empty.
Similar(a, b) ==
    LET total == Len(a) + Len(b)
        matches == MatchTotal(a, 1, Len(a) + 1, b, 1, Len(b) + 1)
    IN  IF total = 0 THEN TRUE
        ELSE 2 * matches * ThresholdDen >= ThresholdNum * total

\* ------------------------------------------------------------------------
\* Configuration (config.py)
\* ------------------------------------------------------------------------

\* The "TRIZ Based Ideation" workflow (four ideation agents on the same branch of
\* _for_agent as "Cross-Industry Ideation") is left out to keep the state space small.
WORKFLOWS ==
    [w \in {"Cross-Industry Ideation", "Integrated Solutions Ideation"} |->
        IF w = "Cross-Industry Ideation"
        THEN <<"Cross-Industry Translation Agent", "Scientific Research Agent 2",
               "Black Hat Thinker Agent", "Self Critique Agent">>
        ELSE <<"Product Ideation Agent", "Integrated Solutions Agent",
               "Scientific Research Agent 1", "Scientific Research Agent 2",
               "Black Hat Thinker Agent", "Self Critique Agent">>]

IDEATION_AGENTS ==
    {"TRIZ Ideation Agent", "Cross-Industry Translation Agent",
     "Integrated Solutions Agent", "Scientific Research Agent 1",
     "Scientific Research Agent 2", "Product Ideation Agent"}

REVIEW_AGENTS == {"Black Hat Thinker Agent", "Self Critique Agent"}

\* ideation_agents = [a for a in wf_agents if a in IDEATION_AGENTS]
IdeationAgentsOf(wf) ==
    LET isIdeator(a) == a \in IDEATION_AGENTS IN SelectSeq(WORKFLOWS[wf], isIdeator)

\* review_agents = [a for a in wf_agents if a in REVIEW_AGENTS]
ReviewAgentsOf(wf) ==
    LET isReviewer(a) == a \in REVIEW_AGENTS IN SelectSeq(WORKFLOWS[wf], isReviewer)

Range(f) == {f[i] : i \in DOMAIN f}

\* ------------------------------------------------------------------------
\* Concept objects and agent replies
\* ------------------------------------------------------------------------

\* A key that the dict does not hold.
Absent == <<"<absent>">>

\* A candidate object: its "agent" tag ("" before tagging), its "title" and "Title"
\* keys, and whether the list item is a dict at all.
Concept(lower, upper) == [agent |-> "", title |-> lower, Title |-> upper, dict |-> TRUE]
NotADict == [agent |-> "", title |-> Absent, Title |-> Absent, dict |-> FALSE]

T_ab == <<"a", "b">>
T_cd == <<"c", "d">>
T_AbPad == <<"A", "b", " ">>

\* Replies of a schema-validated ideation agent (every item of "solutions" holds a
\* "title" string; items of "principles" need not).
AgentReplies ==
    { [solutions |-> <<>>, principles |-> <<>>],
      [solutions |-> <<Concept(T_ab, Absent)>>, principles |-> <<>>],
      [solutions |-> <<Concept(T_cd, Absent)>>, principles |-> <<>>],
      [solutions |-> <<Concept(T_ab, Absent), Concept(T_cd, Absent)>>, principles |-> <<>>],
      [solutions |-> <<>>, principles |-> <<Concept(Absent, Absent)>>] }

\* Results of call_product_ideation_with_search (extracted, not schema-validated):
\* an item can hold an "agent" key of its own.
ProductReplies ==
    { [solutions |-> <<>>, principles |-> <<>>],
      [solutions |-> <<[Concept(T_ab, Absent) EXCEPT !.agent = "Scientific Research Agent 1"]>>,
       principles |-> <<>>],
      [solutions |-> <<Concept(Absent, T_AbPad)>>, principles |-> <<>>],
      [solutions |-> <<NotADict, Concept(T_cd, Absent)>>, principles |-> <<>>] }

\* existing_concepts, by title ("" for a concept without a title).
ExistingLists == { <<>>, <<<<"A", "b">>>>, <<<<"A", "b">>, <<>>>> }

\* Bound: the number of items in one reviewer reply.
MaxItems == 1

\* Items a reviewer can return: {title, comment}, either possibly missing.
ReviewItems ==
    { [title |-> T_ab, comment |-> <<"x">>],
      [title |-> <<" ", "a", "b">>, comment |-> <<"y", " ">>],
      [title |-> <<"z">>, comment |-> <<"x">>],
      [title |-> T_ab, comment |-> Absent] }

ReviewReplies == UNION { [1..n -> ReviewItems] : n \in 0..MaxItems }

\* "solutions" lists a refine invocation can return; the model may set "agent".
RefineReplies ==
    { <<>>,
      <<Concept(T_ab, Absent)>>,
      <<[Concept(T_cd, Absent) EXCEPT !.agent = "Self Critique Agent"]>> }

\* ------------------------------------------------------------------------
\* _collect_solutions
\* ------------------------------------------------------------------------

\* Mutant: the overrides of "Integrated Solutions Ideation" skip no agent.
BranchNoSkip(wf, a) ==
    IF wf = "Integrated Solutions Ideation" /\ a = "Product Ideation Agent"
    THEN "product_search" ELSE "agent"

\* Which branch _for_agent takes for an agent of a workflow.
Branch(wf, a) ==
    IF wf = "Integrated Solutions Ideation"
    THEN IF a = "Product Ideation Agent" THEN "product_search"
         ELSE IF a = "Integrated Solutions Agent" THEN "agent"
         ELSE "skip"
    ELSE "agent"

\* unwrap dict -> list[dict], filter non-dicts.
Unwrap(reply) ==
    LET isDict(s) == s.dict
    IN  SelectSeq(reply.solutions, isDict) \o SelectSeq(reply.principles, isDict)

\* for sol in raw: sol["agent"] = agent_name
Tag(items, a) == [i \in 1..Len(items) |-> [items[i] EXCEPT !.agent = a]]

\* [idea for chunk in chunks for idea in chunk], chunks in the order of the agents.
RECURSIVE Flatten(_, _)
Flatten(agents, ch) ==
    IF agents = <<>> THEN <<>> ELSE ch[Head(agents)] \o Flatten(Tail(agents), ch)

\* Mutant: the join does not wait for every task.
AllDoneAny(task, agents) == \E i \in 1..Len(agents) : task[agents[i]] = "done"

\* await asyncio.gather(*tasks) resumes when every task has completed.
AllDone(task, agents) == \A i \in 1..Len(agents) : task[agents[i]] = "done"

\* ------------------------------------------------------------------------
\* ideate_review_refactor
\* ------------------------------------------------------------------------

\* existing_norms
ExistingNorms(ex) == [i \in 1..Len(ex) |-> NormalizeTitle(ex[i])]

\* title = sol.get("title", sol.get("Title", ""))
DedupTitle(sol) ==
    IF sol.title # Absent THEN sol.title
    ELSE IF sol.Title # Absent THEN sol.Title
    ELSE <<>>

\* Mutant: only a candidate whose normalised title equals an existing one is dropped.
DedupExact(cands, norms) ==
    LET keep(sol) == ~\E i \in 1..Len(norms) : NormalizeTitle(DedupTitle(sol)) = norms[i]
    IN  SelectSeq(cands, keep)

\* Mutant: the filter also loses its first survivor.
DedupDropsHead(cands, norms) ==
    LET keep(sol) == ~\E i \in 1..Len(norms) :
                         Similar(NormalizeTitle(DedupTitle(sol)), norms[i])
        kept == SelectSeq(cands, keep)
    IN  IF kept = <<>> THEN kept ELSE Tail(kept)

\* PHASE-1.1: drop a candidate whose normalised title is similar to an existing one.
Dedup(cands, norms) ==
    LET keep(sol) == ~\E i \in 1..Len(norms) :
                         Similar(NormalizeTitle(DedupTitle(sol)), norms[i])
    IN  SelectSeq(cands, keep)

\* Mutant: the early return is taken when no existing concepts were supplied.
BailOutInverted(norms, cands) == norms = <<>> /\ cands = <<>>

\* PHASE-1.2: if existing_norms and not raw
BailOut(norms, cands) == norms # <<>> /\ cands = <<>>

\* The synthetic record of the early return.
NoNewConcepts ==
    [agent |-> "System", title |-> <<"N", "o", " ", "n", "e", "w">>,
     Title |-> Absent, dict |-> TRUE]

\* PHASE-1.3: "Title" is renamed to "title" when "title" is missing.
RenameKeys(cands) ==
    [i \in 1..Len(cands) |->
        IF cands[i].Title # Absent /\ cands[i].title = Absent
        THEN [cands[i] EXCEPT !.title = cands[i].Title, !.Title = Absent]
        ELSE cands[i]]

Truthy(t) == t # Absent /\ t # <<>>

\* sol.get("title") or sol.get("Title")
TitleOf(sol) == IF Truthy(sol.title) THEN sol.title ELSE sol.Title

EmptyMap == <<>>

\* Mutant: the accumulator starts without keys.
SeedFeedbackEmpty(cands) == EmptyMap

\* feedback[title] = [] for every candidate with a usable title.
SeedFeedback(cands) ==
    [t \in {TitleOf(cands[i]) : i \in {j \in 1..Len(cands) : Truthy(TitleOf(cands[j]))}}
        |-> <<>>]

\* Mutant: a reviewer's comment replaces the list.
MergeCommentReplace(fb, t, c) ==
    IF t \in DOMAIN fb THEN [fb EXCEPT ![t] = <<c>>] ELSE fb @@ (t :> <<c>>)

\* feedback.setdefault(t, []).append(c)
MergeComment(fb, t, c) ==
    IF t \in DOMAIN fb THEN [fb EXCEPT ![t] = Append(@, c)] ELSE fb @@ (t :> <<c>>)

\* item.get(key, "").strip()
Field(v) == IF v = Absent THEN <<>> ELSE Strip(v)

\* The loop over fb.get("solutions", []) in _review.
RECURSIVE MergeReply(_, _)
MergeReply(fb, items) ==
    IF items = <<>> THEN fb
    ELSE LET t == Field(Head(items).title)
             c == Field(Head(items).comment)
         IN  MergeReply(IF t # <<>> /\ c # <<>> THEN MergeComment(fb, t, c) ELSE fb,
                        Tail(items))

\* Mutant: the refine results keep whatever "agent" the model wrote.
RetagKeep(res, a) == res

\* for s in results: s["agent"] = ideator
Retag(res, a) == [i \in 1..Len(res) |-> [res[i] EXCEPT !.agent = a]]

\* Mutant: a failed refine call gives the agent's candidates back.
RefineFallbackMine(mine) == mine

\* except Exception: return []
RefineFallback(mine) == <<>>

\* Mutant: every candidate is handed to every agent.
MineAll(cands, a) == cands

\* mine = [s for s in raw if s.get("agent") == ideator]
Mine(cands, a) == LET own(s) == s.agent = a IN SelectSeq(cands, own)

\* fb_for: title and comments of each of mine that has a usable title.
FbFor(mine, fb) ==
    LET titled(s) == Truthy(TitleOf(s))
        ts == SelectSeq(mine, titled)
    IN  [i \in 1..Len(ts) |->
            [title |-> TitleOf(ts[i]),
             comments |-> IF TitleOf(ts[i]) \in DOMAIN fb THEN fb[TitleOf(ts[i])] ELSE <<>>]]

NoPayload == [concepts |-> <<>>, feedback |-> <<>>]
NoReply == [ok |-> FALSE, items |-> <<>>]
NoReturn == [raw |-> <<>>, feedback |-> EmptyMap, refined |-> <<>>]

WorkflowChoices == DOMAIN WORKFLOWS

\* State at the first suspension: every _for_agent task launched by gather.
\* The only call of ideate_review_refactor (Start Ideation) passes no stream, so
\* the "if stream:" blocks never run and are not modelled.
OrchStart ==
    /\ o_pc = "ideation"
    /\ workflow \in WorkflowChoices
    /\ existing \in ExistingLists
    /\ iTask = [a \in IDEATION_AGENTS |->
                  IF a \in Range(IdeationAgentsOf(workflow)) THEN "running" ELSE "idle"]
    /\ ideaCalls = {}
    /\ chunks = [a \in IDEATION_AGENTS |-> <<>>]
    /\ o_raw = <<>>
    /\ feedback = EmptyMap
    /\ rTask = [r \in REVIEW_AGENTS |-> "idle"]
    /\ revReply = [r \in REVIEW_AGENTS |-> NoReply]
    /\ fTask = [a \in IDEATION_AGENTS |-> "idle"]
    /\ refCalls = [a \in IDEATION_AGENTS |-> 0]
    /\ payload = [a \in IDEATION_AGENTS |-> NoPayload]
    /\ fChunks = [a \in IDEATION_AGENTS |-> <<>>]
    /\ refReply = [a \in IDEATION_AGENTS |-> NoReply]
    /\ ret = NoReturn

OrchIdle ==
    /\ o_pc = "idle"
    /\ workflow = "Cross-Industry Ideation"
    /\ existing = <<>>
    /\ iTask = [a \in IDEATION_AGENTS |-> "idle"]
    /\ ideaCalls = {}
    /\ chunks = [a \in IDEATION_AGENTS |-> <<>>]
    /\ o_raw = <<>>
    /\ feedback = EmptyMap
    /\ rTask = [r \in REVIEW_AGENTS |-> "idle"]
    /\ revReply = [r \in REVIEW_AGENTS |-> NoReply]
    /\ fTask = [a \in IDEATION_AGENTS |-> "idle"]
    /\ refCalls = [a \in IDEATION_AGENTS |-> 0]
    /\ payload = [a \in IDEATION_AGENTS |-> NoPayload]
    /\ fChunks = [a \in IDEATION_AGENTS |-> <<>>]
    /\ refReply = [a \in IDEATION_AGENTS |-> NoReply]
    /\ ret = NoReturn

\* No flattening in progress.
FlatIdle ==
    /\ flat_pc = "idle"
    /\ flat_agent = ""
    /\ flat_sol = <<>>
    /\ flat_row = <<>>

\* No TRL validation in progress.
TrlIdle ==
    /\ t_pc = "idle"
    /\ trl_df = <<>>
    /\ trl_df_in = <<>>
    /\ trlTask = <<>>
    /\ evidence = <<>>
    /\ trl_results = <<>>
    /\ trl_cited = <<>>

\* No dedupe in progress.
DedupIdle ==
    /\ d_pc = "idle"
    /\ candidates = <<>>
    /\ existing_titles = <<>>
    /\ d_filtered = <<>>
    /\ d_refiltered = <<>>

\* No regeneration in progress.
NoDoc == <<>>

RegenIdle ==
    /\ r_pc = "idle"
    /\ graph = <<>>
    /\ edited = None
    /\ cascade = {}
    /\ concept = NoDoc
    /\ concept_in = NoDoc
    /\ previous_draft = NoDoc
    /\ position = 0
    /\ prompted = <<>>
    /\ replies = <<>>
    /\ warnings = {}
    /\ last_diff = None
    /\ flash_sections = {}

\* No enrichment pass in progress.
EnrichIdle ==
    /\ e_pc = "idle"
    /\ agent_name = "Scientific Research Agent 2"
    /\ df = <<>>
    /\ df_in = <<>>
    /\ eTask = <<>>
    /\ results = <<>>

LLMIdle ==
    /\ l_pc = "idle"
    /\ max_attempts = 0
    /\ script = <<>>
    /\ attempt = 1
    /\ invocations = 0
    /\ raw = None
    /\ err = None
    /\ user_prompt = "orig"
    /\ l_result = None
    /\ l_exc = None
    /\ l_exc_msg = None

\* A _for_agent task of the "skip" branch returns [] without calling any model.
IdeationSkip(a) ==
    /\ o_pc = "ideation"
    /\ iTask[a] = "running"
    /\ Branch(workflow, a) = "skip"
    /\ iTask' = [iTask EXCEPT ![a] = "done"]
    /\ UNCHANGED <<o_pc, workflow, existing, ideaCalls, chunks, o_raw, feedback, rTask,
                   revReply, fTask, refCalls, payload, fChunks, refReply, ret>>

\* A _for_agent task completes with the agent's reply, unwrapped and tagged.
IdeationReturn(a) ==
    /\ o_pc = "ideation"
    /\ iTask[a] = "running"
    /\ Branch(workflow, a) # "skip"
    /\ \E reply \in (IF Branch(workflow, a) = "agent" THEN AgentReplies ELSE ProductReplies) :
          chunks' = [chunks EXCEPT ![a] = Tag(Unwrap(reply), a)]
    /\ iTask' = [iTask EXCEPT ![a] = "done"]
    /\ ideaCalls' = ideaCalls \cup {a}
    /\ UNCHANGED <<o_pc, workflow, existing, o_raw, feedback, rTask, revReply, fTask,
                   refCalls, payload, fChunks, refReply, ret>>

\* The agent call of a _for_agent task raises: nothing in _for_agent or in
\* _collect_solutions catches it, so gather re-raises it into ideate_review_refactor
\* and on into its caller.
IdeationFail(a) ==
    /\ o_pc = "ideation"
    /\ iTask[a] = "running"
    /\ Branch(workflow, a) # "skip"
    /\ iTask' = [iTask EXCEPT ![a] = "failed"]
    /\ ideaCalls' = ideaCalls \cup {a}
    /\ o_pc' = "raised"
    /\ UNCHANGED <<workflow, existing, chunks, o_raw, feedback, rTask, revReply, fTask,
                   refCalls, payload, fChunks, refReply, ret>>

\* gather returned: flatten, dedup, then either the early return or the launch of
\* every _review task.
IdeationJoin ==
    /\ o_pc = "ideation"
    /\ AllDone(iTask, IdeationAgentsOf(workflow))
    /\ LET norms == ExistingNorms(existing)
           filtered == Dedup(Flatten(IdeationAgentsOf(workflow), chunks), norms)
       IN  IF BailOut(norms, filtered)
           THEN /\ o_pc' = "returned"
                /\ ret' = [raw |-> <<>>, feedback |-> EmptyMap,
                           refined |-> <<NoNewConcepts>>]
                /\ UNCHANGED <<o_raw, feedback, rTask>>
           ELSE /\ o_pc' = "review"
                /\ o_raw' = RenameKeys(filtered)
                /\ feedback' = SeedFeedback(RenameKeys(filtered))
                /\ rTask' = [r \in REVIEW_AGENTS |->
                               IF r \in Range(ReviewAgentsOf(workflow))
                               THEN "running" ELSE "idle"]
                /\ ret' = ret
    /\ UNCHANGED <<workflow, existing, iTask, ideaCalls, chunks, revReply, fTask,
                   refCalls, payload, fChunks, refReply>>

\* A _review task resumes with its agent's reply and merges the comments.
ReviewReturn(r) ==
    /\ o_pc = "review"
    /\ rTask[r] = "running"
    /\ \E items \in ReviewReplies :
          /\ revReply' = [revReply EXCEPT ![r] = [ok |-> TRUE, items |-> items]]
          /\ feedback' = MergeReply(feedback, items)
    /\ rTask' = [rTask EXCEPT ![r] = "done"]
    /\ UNCHANGED <<o_pc, workflow, existing, iTask, ideaCalls, chunks, o_raw, fTask,
                   refCalls, payload, fChunks, refReply, ret>>

\* The agent call of a _review task raises: except Exception: fb = {"solutions": []}.
ReviewFail(r) ==
    /\ o_pc = "review"
    /\ rTask[r] = "running"
    /\ revReply' = [revReply EXCEPT ![r] = [ok |-> FALSE, items |-> <<>>]]
    /\ feedback' = MergeReply(feedback, <<>>)
    /\ rTask' = [rTask EXCEPT ![r] = "done"]
    /\ UNCHANGED <<o_pc, workflow, existing, iTask, ideaCalls, chunks, o_raw, fTask,
                   refCalls, payload, fChunks, refReply, ret>>

\* gather returned: every _refine task is launched; a task whose agent has no
\* candidate returns [] at once, the others invoke their agent.
ReviewJoin ==
    /\ o_pc = "review"
    /\ AllDone(rTask, ReviewAgentsOf(workflow))
    /\ o_pc' = "refine"
    /\ LET ideators == Range(IdeationAgentsOf(workflow)) IN
       /\ fTask' = [a \in IDEATION_AGENTS |->
                      IF a \notin ideators THEN "idle"
                      ELSE IF Mine(o_raw, a) = <<>> THEN "done" ELSE "running"]
       /\ refCalls' = [a \in IDEATION_AGENTS |->
                         IF a \in ideators /\ Mine(o_raw, a) # <<>> THEN 1 ELSE 0]
       /\ payload' = [a \in IDEATION_AGENTS |->
                        IF a \in ideators /\ Mine(o_raw, a) # <<>>
                        THEN [concepts |-> Mine(o_raw, a),
                              feedback |-> FbFor(Mine(o_raw, a), feedback)]
                        ELSE NoPayload]
    /\ UNCHANGED <<workflow, existing, iTask, ideaCalls, chunks, o_raw, feedback, rTask,
                   revReply, fChunks, refReply, ret>>

\* A _refine task resumes with its agent's reply and re-tags the results.
RefineReturn(a) ==
    /\ o_pc = "refine"
    /\ fTask[a] = "running"
    /\ \E res \in RefineReplies :
          /\ refReply' = [refReply EXCEPT ![a] = [ok |-> TRUE, items |-> res]]
          /\ fChunks' = [fChunks EXCEPT ![a] = Retag(res, a)]
    /\ fTask' = [fTask EXCEPT ![a] = "done"]
    /\ UNCHANGED <<o_pc, workflow, existing, iTask, ideaCalls, chunks, o_raw, feedback,
                   rTask, revReply, refCalls, payload, ret>>

\* The agent call of a _refine task raises: except Exception: return [].
RefineFail(a) ==
    /\ o_pc = "refine"
    /\ fTask[a] = "running"
    /\ refReply' = [refReply EXCEPT ![a] = [ok |-> FALSE, items |-> <<>>]]
    /\ fChunks' = [fChunks EXCEPT ![a] = RefineFallback(Mine(o_raw, a))]
    /\ fTask' = [fTask EXCEPT ![a] = "done"]
    /\ UNCHANGED <<o_pc, workflow, existing, iTask, ideaCalls, chunks, o_raw, feedback,
                   rTask, revReply, refCalls, payload, ret>>

\* gather returned: return raw, feedback, refined.
RefineJoin ==
    /\ o_pc = "refine"
    /\ AllDone(fTask, IdeationAgentsOf(workflow))
    /\ o_pc' = "returned"
    /\ ret' = [raw |-> o_raw, feedback |-> feedback,
               refined |-> Flatten(IdeationAgentsOf(workflow), fChunks)]
    /\ UNCHANGED <<workflow, existing, iTask, ideaCalls, chunks, o_raw, feedback, rTask,
                   revReply, fTask, refCalls, payload, fChunks, refReply>>

InitOrch == OrchStart /\ LLMIdle /\ EnrichIdle /\ RegenIdle /\ DedupIdle /\ TrlIdle /\ FlatIdle

NextOrch ==
    \/ \E a \in IDEATION_AGENTS : IdeationSkip(a) /\ UNCHANGED <<llmVars, enrichVars, regenVars, dedupVars, trlVars, flatVars>>
    \/ \E a \in IDEATION_AGENTS : IdeationReturn(a) /\ UNCHANGED <<llmVars, enrichVars, regenVars, dedupVars, trlVars, flatVars>>
    \/ \E a \in IDEATION_AGENTS : IdeationFail(a) /\ UNCHANGED <<llmVars, enrichVars, regenVars, dedupVars, trlVars, flatVars>>
    \/ IdeationJoin /\ UNCHANGED <<llmVars, enrichVars, regenVars, dedupVars, trlVars, flatVars>>
    \/ \E r \in REVIEW_AGENTS : ReviewReturn(r) /\ UNCHANGED <<llmVars, enrichVars, regenVars, dedupVars, trlVars, flatVars>>
    \/ \E r \in REVIEW_AGENTS : ReviewFail(r) /\ UNCHANGED <<llmVars, enrichVars, regenVars, dedupVars, trlVars, flatVars>>
    \/ ReviewJoin /\ UNCHANGED <<llmVars, enrichVars, regenVars, dedupVars, trlVars, flatVars>>
    \/ \E a \in IDEATION_AGENTS : RefineReturn(a) /\ UNCHANGED <<llmVars, enrichVars, regenVars, dedupVars, trlVars, flatVars>>
    \/ \E a \in IDEATION_AGENTS : RefineFail(a) /\ UNCHANGED <<llmVars, enrichVars, regenVars, dedupVars, trlVars, flatVars>>
    \/ RefineJoin /\ UNCHANGED <<llmVars, enrichVars, regenVars, dedupVars, trlVars, flatVars>>

SpecOrch == InitOrch /\ [][NextOrch]_vars

\* ------------------------------------------------------------------------
\* _enrich_df_async
\* ------------------------------------------------------------------------

\* Cell and JSON values. Null is None / NaN; "None" is the four-letter string;
\* "list:..." and "dict:..." are a JSON array and a JSON object.
Null == "<null>"

\* Bound: the number of rows of the data frame.
MaxRows == 2

\* Rows as _flatten_solution and _ensure_helper_cols build them: every row has
\* every column of DISPLAY_COLS (those the enrichment agents name are kept here)
\* and never a "solutions" column.
Row(t, d, f, c, l, r, ci, cc) ==
    [title |-> t, description |-> d, feasibility_reasoning |-> f, cost_estimate |-> c,
     trl |-> l, trl_reasoning |-> r, trl_citations |-> ci, constructive_critique |-> cc]

RowPool ==
    { Row("x", Null, Null, Null, Null, Null, Null, Null),
      Row("y", "None", "x", "x", "3", "None", "", "None"),
      Row("x", "x", "None", "None", "None", "x", "a", "y") }

EmptyDict == <<>>

NoEnrichReply == [solution |-> EmptyDict, solutions |-> <<>>]

\* Replies that pass the agent's schema. Scientific Research Agent 2: a
\* "solutions" list of items with the five required keys, further keys allowed
\* in the items and beside "solutions". Self Critique Agent: nothing beside
\* "solutions", items with "title" and "comment" and any further keys.
EnrichReplies(agent) ==
    IF agent = "Scientific Research Agent 2"
    THEN LET item == [title |-> "y", feasibility_reasoning |-> "y", cost_estimate |-> "y",
                      trl |-> "7", trl_reasoning |-> "y", trl_citations |-> "list:a,b",
                      sources |-> "dict:k=a"]
         IN  { NoEnrichReply,
               [solution |-> EmptyDict, solutions |-> <<item>>],
               [solution |-> [description |-> "z", trl |-> Null], solutions |-> <<item>>] }
    ELSE { NoEnrichReply,
           [solution |-> EmptyDict, solutions |-> <<[title |-> "y", comment |-> "x"]>>],
           [solution |-> EmptyDict,
            solutions |-> <<[title |-> "y", comment |-> "x", suggestion |-> "z",
                             constructive_critique |-> "x", description |-> "y"]>>] }

\* new_row = out.get("solution"), else out["solutions"][0], else out itself.
PickNewRow(out) ==
    IF out.solution # EmptyDict THEN out.solution
    ELSE IF out.solutions # <<>> /\ out.solutions[1] # EmptyDict THEN out.solutions[1]
    ELSE [solutions |-> IF out.solutions = <<>> THEN "list:" ELSE "list:dict:"]

\* new_row["constructive_critique"] = new_row.pop("suggestion"), Self Critique only.
RenameSuggestion(agent, d) ==
    IF agent = "Self Critique Agent" /\ "suggestion" \in DOMAIN d
    THEN [k \in (DOMAIN d \ {"suggestion"}) \cup {"constructive_critique"} |->
             IF k = "constructive_critique" THEN d["suggestion"] ELSE d[k]]
    ELSE d

\* Lists are joined with newlines, dicts become str(v), scalars are kept.
Scalarize(v) ==
    CASE v = "list:a,b" -> "a\nb"
      [] v = "list:" -> ""
      [] v = "list:dict:" -> "{}"
      [] v = "dict:k=a" -> "{'k': 'a'}"
      [] OTHER -> v

\* Mutant: the agent's value always lands in the cell.
WriteCellAlways(old, v) == v

\* if pd.isna(df.at[i, k]) or df.at[i, k] in (None, "None"): df.at[i, k] = v
WriteCell(old, v) == IF old = Null \/ old = "None" THEN v ELSE old

\* The loop over results: columns the replies name are added (None everywhere),
\* then each cell a reply names is written through WriteCell.
MergeResults(agent, frame, outs) ==
    LET newRow(i) == RenameSuggestion(agent, PickNewRow(outs[i]))
        cols == DOMAIN frame[1]
        allCols == cols \cup UNION {DOMAIN newRow(i) : i \in 1..Len(frame)}
    IN  [i \in 1..Len(frame) |->
            [k \in allCols |->
                LET old == IF k \in cols THEN frame[i][k] ELSE Null
                IN  IF k \in DOMAIN newRow(i)
                    THEN WriteCell(old, Scalarize(newRow(i)[k]))
                    ELSE old]]

\* if "solutions" in df.columns: df = df.drop(columns=["solutions"])
DropSolutions(frame) ==
    [i \in 1..Len(frame) |-> [k \in (DOMAIN frame[i]) \ {"solutions"} |-> frame[i][k]]]

\* _enrich_df("Scientific Research Agent 2", df) at its first suspension: one
\* _enrich_one task per row launched by gather.
EnrichStart ==
    /\ e_pc = "running"
    /\ agent_name = "Scientific Research Agent 2"
    /\ df \in UNION { [1..n -> RowPool] : n \in 1..MaxRows }
    /\ df_in = df
    /\ eTask = [i \in 1..Len(df) |-> "running"]
    /\ results = [i \in 1..Len(df) |-> NoEnrichReply]

\* The _enrich_one task of row i completes with the agent's reply.
EnrichReturn(i) ==
    /\ e_pc = "running"
    /\ eTask[i] = "running"
    /\ \E out \in EnrichReplies(agent_name) : results' = [results EXCEPT ![i] = out]
    /\ eTask' = [eTask EXCEPT ![i] = "done"]
    /\ UNCHANGED <<e_pc, agent_name, df, df_in>>

\* The agent call of row i raises: nothing in _enrich_one or around gather catches
\* it, so _enrich_df_async raises.
EnrichFail(i) ==
    /\ e_pc = "running"
    /\ eTask[i] = "running"
    /\ eTask' = [eTask EXCEPT ![i] = "failed"]
    /\ e_pc' = "raised"
    /\ UNCHANGED <<agent_name, df, df_in, results>>

\* gather returned: the write-back loop, the drop of "solutions", return df.
EnrichMerge ==
    /\ e_pc = "running"
    /\ \A i \in 1..Len(df) : eTask[i] = "done"
    /\ df' = DropSolutions(MergeResults(agent_name, df, results))
    /\ e_pc' = "returned"
    /\ UNCHANGED <<agent_name, df_in, eTask, results>>

\* Start Ideation: df = _enrich_df("Self Critique Agent", df) follows the first pass.
EnrichSecondPass ==
    /\ e_pc = "returned"
    /\ agent_name = "Scientific Research Agent 2"
    /\ agent_name' = "Self Critique Agent"
    /\ e_pc' = "running"
    /\ df_in' = df
    /\ eTask' = [i \in 1..Len(df) |-> "running"]
    /\ results' = [i \in 1..Len(df) |-> NoEnrichReply]
    /\ UNCHANGED df

InitEnrich == EnrichStart /\ LLMIdle /\ OrchIdle /\ RegenIdle /\ DedupIdle /\ TrlIdle /\ FlatIdle

NextEnrich ==
    \/ \E i \in DOMAIN df : EnrichReturn(i) /\ UNCHANGED <<llmVars, orchVars, regenVars, dedupVars, trlVars, flatVars>>
    \/ \E i \in DOMAIN df : EnrichFail(i) /\ UNCHANGED <<llmVars, orchVars, regenVars, dedupVars, trlVars, flatVars>>
    \/ EnrichMerge /\ UNCHANGED <<llmVars, orchVars, regenVars, dedupVars, trlVars, flatVars>>
    \/ EnrichSecondPass /\ UNCHANGED <<llmVars, orchVars, regenVars, dedupVars, trlVars, flatVars>>

SpecEnrich == InitEnrich /\ [][NextEnrich]_vars

\* ------------------------------------------------------------------------
\* Regeneration block: the cascade set
\* ------------------------------------------------------------------------

\* SECTION_DEPENDENCIES.get(s, []) as a set.
Dependents(G, s) == IF s \in DOMAIN G THEN G[s] ELSE {}

\* Mutant: the cascade stops at the direct dependents.
CascadeOneHop(G, s) == {s} \cup Dependents(G, s)

\* cascade = {edited} | set(deps(edited)); cascade |= deps of every member.
Cascade(G, s) ==
    LET first == {s} \cup Dependents(G, s)
    IN  first \cup UNION { Dependents(G, parent) : parent \in first }

\* Bound: the longest list of dependents of one section in the graphs tried.
MaxDeps == 2

Nodes == {"A", "B", "C", "D"}

\* Dependency graphs over Nodes: any set of keys, each with at most MaxDeps dependents.
Graphs ==
    UNION { [keys -> {d \in SUBSET Nodes : Cardinality(d) <= MaxDeps}] : keys \in SUBSET Nodes }

\* The cascade computation on an arbitrary graph and edited section.
CascadeStart ==
    /\ r_pc = "start"
    /\ graph \in Graphs
    /\ edited \in Nodes \cup {"E"}
    /\ cascade = {}
    /\ concept = NoDoc
    /\ concept_in = NoDoc
    /\ previous_draft = NoDoc
    /\ position = 0
    /\ prompted = <<>>
    /\ replies = <<>>
    /\ warnings = {}
    /\ last_diff = None
    /\ flash_sections = {}

\* Lines 1395-1398: the cascade set is built; the loop over AGENTS comes next.
CascadeBuild ==
    /\ r_pc = "start"
    /\ cascade' = Cascade(graph, edited)
    /\ r_pc' = "loop"
    /\ position' = 1
    /\ UNCHANGED <<graph, edited, concept, concept_in, previous_draft, prompted, replies,
                   warnings, last_diff, flash_sections>>

InitCascade == CascadeStart /\ LLMIdle /\ OrchIdle /\ EnrichIdle /\ DedupIdle /\ TrlIdle /\ FlatIdle

NextCascade ==
    \/ CascadeBuild /\ UNCHANGED <<llmVars, orchVars, enrichVars, dedupVars, trlVars, flatVars>>

SpecCascade == InitCascade /\ [][NextCascade]_vars

\* ------------------------------------------------------------------------
\* Regeneration block: the loop over the owning agents
\* ------------------------------------------------------------------------

SECTION_DEPENDENCIES ==
    [problem_statement |-> {"concept_overview", "executive_summary", "title"},
     concept_overview |-> {"technical_details", "performance_targets", "manufacturing_process",
                           "sustainability", "applications", "executive_summary"},
     technical_details |-> {"performance_targets", "manufacturing_process", "cost_feasibility",
                            "risks_mitigations", "sustainability", "validation_plan",
                            "work_plan", "kpi_table", "executive_summary"},
     manufacturing_process |-> {"cost_feasibility", "risks_mitigations", "work_plan",
                                "validation_plan", "kpi_table", "executive_summary"},
     performance_targets |-> {"kpi_table", "validation_plan", "executive_summary",
                              "technical_details", "concept_overview", "manufacturing_process"},
     cost_feasibility |-> {"work_plan", "kpi_table", "executive_summary"},
     risks_mitigations |-> {"work_plan", "executive_summary"},
     sustainability |-> {"executive_summary", "applications"},
     applications |-> {"executive_summary", "work_plan"},
     work_plan |-> {"validation_plan", "kpi_table", "executive_summary"},
     validation_plan |-> {"kpi_table", "executive_summary"},
     kpi_table |-> {"executive_summary"},
     ip_landscape |-> {"executive_summary"},
     references |-> {"executive_summary"}]

\* The keys of AGENT_CONFIG in insertion order, which is the order of AGENTS.items().
AGENTS ==
    <<"TRIZ Ideation Agent", "Scientific Research Agent 1", "Scientific Research Agent 2",
      "Cross-Industry Translation Agent", "Integrated Solutions Agent",
      "Black Hat Thinker Agent", "Self Critique Agent", "Product Ideation Agent",
      "TRL Assessment", "Literature Review Agent", "Proposal Writer Agent">>

\* SCHEMA_PW["properties"], all of them required.
SCHEMA_PW ==
    {"title", "executive_summary", "problem_statement", "concept_overview",
     "technical_details", "performance_targets", "manufacturing_process",
     "cost_feasibility", "risks_mitigations", "sustainability", "applications",
     "experimental_design", "validation_plan", "kpi_table", "ip_landscape", "references"}

\* agent.schema["properties"] of the two agents SECTION_OWNERS names.
SchemaProperties(a) ==
    IF a = "Proposal Writer Agent" THEN SCHEMA_PW ELSE {"solutions"}

\* SECTION_OWNERS: every key of SECTION_DEPENDENCIES goes to the Proposal Writer,
\* risks_mitigations to the Black Hat Thinker.
SECTION_OWNERS ==
    [sec \in DOMAIN SECTION_DEPENDENCIES |->
        IF sec = "risks_mitigations" THEN "Black Hat Thinker Agent"
        ELSE "Proposal Writer Agent"]

explicit_owners == Range(SECTION_OWNERS)

\* owned = [sec for sec in cascade if sec in agent.schema["properties"]]
Owned(a, casc) == casc \cap SchemaProperties(a)

\* Both "continue" branches of the loop.
Skipped(a, casc) == a \notin explicit_owners \/ Owned(a, casc) = {}

\* Documents: a proposal with every SCHEMA_PW key, with or without further keys.
Documents ==
    { [k \in SCHEMA_PW \cup more |-> "old"] : more \in {{}, {"work_plan", "notes"}} }

\* Objects that pass the agent's schema (all required keys; further keys allowed).
Patches(a, doc) ==
    IF a = "Proposal Writer Agent"
    THEN { [k \in SCHEMA_PW |-> "new"],
           [k \in SCHEMA_PW \cup {"work_plan", "notes"} |-> "new"],
           [k \in SCHEMA_PW |-> IF k = "title" THEN "new" ELSE doc[k]] }
    ELSE { [solutions |-> "new"] }

\* Mutant: the raw patch is applied as returned.
ValidPatchUnfiltered(raw_patch, casc) == raw_patch

\* raw_patch.pop("title", None); valid_patch = {k: v ... if k in cascade}
ValidPatch(raw_patch, casc) ==
    [k \in (DOMAIN raw_patch \ {"title"}) \cap casc |-> raw_patch[k]]

\* concept.update(valid_patch)
Update(doc, patch) ==
    [k \in DOMAIN doc \cup DOMAIN patch |-> IF k \in DOMAIN patch THEN patch[k] ELSE doc[k]]

\* DeepDiff(previous, current): the keys added, removed or changed; None when empty.
Diff(previous, current) ==
    LET changed == { k \in DOMAIN previous \cup DOMAIN current :
                        \/ k \notin DOMAIN previous
                        \/ k \notin DOMAIN current
                        \/ previous[k] # current[k] }
    IN  IF changed = {} THEN None ELSE changed

\* The regeneration picks up the payload the editor's button stored: the draft
\* and one of its fields.
RegenStart ==
    /\ r_pc = "start"
    /\ graph = SECTION_DEPENDENCIES
    /\ concept \in Documents
    /\ concept_in = concept
    /\ edited \in DOMAIN concept
    /\ previous_draft \in {NoDoc, [concept EXCEPT !["executive_summary"] = "older"]}
    /\ cascade = {}
    /\ position = 0
    /\ prompted = <<>>
    /\ replies = <<>>
    /\ warnings = {}
    /\ last_diff = None
    /\ flash_sections = {}

\* One iteration that ends in "continue".
RegenSkip ==
    /\ r_pc = "loop"
    /\ position <= Len(AGENTS)
    /\ Skipped(AGENTS[position], cascade)
    /\ position' = position + 1
    /\ UNCHANGED <<r_pc, graph, edited, cascade, concept, concept_in, previous_draft,
                   prompted, replies, warnings, last_diff, flash_sections>>

\* agent.act returns a schema-valid object: the patch is applied, the snapshot
\* is taken and st.rerun() ends the script run (its exception is not an Exception,
\* so the except clause lets it through).
RegenPatch ==
    /\ r_pc = "loop"
    /\ position <= Len(AGENTS)
    /\ ~Skipped(AGENTS[position], cascade)
    /\ \E raw_patch \in Patches(AGENTS[position], concept) :
          /\ replies' = (AGENTS[position] :> raw_patch) @@ replies
          /\ concept' = Update(concept, ValidPatch(raw_patch, cascade))
    /\ prompted' = (AGENTS[position] :> Owned(AGENTS[position], cascade)) @@ prompted
    /\ previous_draft' = concept'
    /\ r_pc' = "rerun"
    /\ UNCHANGED <<graph, edited, cascade, concept_in, position, warnings, last_diff,
                   flash_sections>>

\* agent.act raises: st.warning, and the loop goes on.
RegenFail ==
    /\ r_pc = "loop"
    /\ position <= Len(AGENTS)
    /\ ~Skipped(AGENTS[position], cascade)
    /\ prompted' = (AGENTS[position] :> Owned(AGENTS[position], cascade)) @@ prompted
    /\ warnings' = warnings \cup {AGENTS[position]}
    /\ position' = position + 1
    /\ UNCHANGED <<r_pc, graph, edited, cascade, concept, concept_in, previous_draft,
                   replies, last_diff, flash_sections>>

\* The loop ran to its end: diff, flash list, snapshot, st.rerun().
RegenFinish ==
    /\ r_pc = "loop"
    /\ position > Len(AGENTS)
    /\ last_diff' = Diff(previous_draft, concept)
    /\ flash_sections' = flash_sections \cup cascade
    /\ previous_draft' = concept
    /\ r_pc' = "rerun"
    /\ UNCHANGED <<graph, edited, cascade, concept, concept_in, position, prompted,
                   replies, warnings>>

InitRegen == RegenStart /\ LLMIdle /\ OrchIdle /\ EnrichIdle /\ DedupIdle /\ TrlIdle /\ FlatIdle

NextRegen ==
    \/ CascadeBuild /\ UNCHANGED <<llmVars, orchVars, enrichVars, dedupVars, trlVars, flatVars>>
    \/ RegenSkip /\ UNCHANGED <<llmVars, orchVars, enrichVars, dedupVars, trlVars, flatVars>>
    \/ RegenPatch /\ UNCHANGED <<llmVars, orchVars, enrichVars, dedupVars, trlVars, flatVars>>
    \/ RegenFail /\ UNCHANGED <<llmVars, orchVars, enrichVars, dedupVars, trlVars, flatVars>>
    \/ RegenFinish /\ UNCHANGED <<llmVars, orchVars, enrichVars, dedupVars, trlVars, flatVars>>

SpecRegen == InitRegen /\ [][NextRegen]_vars

\* ------------------------------------------------------------------------
\* The fuzzy dedupe on arbitrary candidates and existing titles
\* ------------------------------------------------------------------------

\* Bounds: the number of candidates and the number of existing concepts.
MaxCands == 2
MaxExisting == 2

\* Titles: empty, blank, differing in case and punctuation, near and far.
TitlePool ==
    { <<>>, <<" ">>, <<"A", "b">>, <<"a", " ", "b", "c">>, <<"a">>, <<"c", "d">> }

\* Candidates: dicts with a "title", with a "Title", or with neither.
CandidatePool ==
    { Concept(t, Absent) : t \in TitlePool }
        \cup { Concept(Absent, <<"a", "b", "c", "d">>), Concept(Absent, Absent) }

DedupStart ==
    /\ d_pc = "start"
    /\ candidates \in UNION { [1..n -> CandidatePool] : n \in 0..MaxCands }
    /\ existing_titles \in UNION { [1..n -> TitlePool] : n \in 0..MaxExisting }
    /\ d_filtered = <<>>
    /\ d_refiltered = <<>>

\* PHASE-1.1 on the candidates.
DedupApply ==
    /\ d_pc = "start"
    /\ d_filtered' = Dedup(candidates, ExistingNorms(existing_titles))
    /\ d_pc' = "filtered"
    /\ UNCHANGED <<candidates, existing_titles, d_refiltered>>

\* PHASE-1.1 on its own output, same existing titles.
DedupAgain ==
    /\ d_pc = "filtered"
    /\ d_refiltered' = Dedup(d_filtered, ExistingNorms(existing_titles))
    /\ d_pc' = "refiltered"
    /\ UNCHANGED <<candidates, existing_titles, d_filtered>>

InitDedup == DedupStart /\ LLMIdle /\ OrchIdle /\ EnrichIdle /\ RegenIdle /\ TrlIdle /\ FlatIdle

NextDedup ==
    \/ DedupApply /\ UNCHANGED <<llmVars, orchVars, enrichVars, regenVars, trlVars, flatVars>>
    \/ DedupAgain /\ UNCHANGED <<llmVars, orchVars, enrichVars, regenVars, trlVars, flatVars>>

SpecDedup == InitDedup /\ [][NextDedup]_vars

\* ------------------------------------------------------------------------
\* _add_validated_trl_async
\* ------------------------------------------------------------------------

\* Bound: the number of rows of the data frame.
MaxTrlRows == 2

\* A null cell of a text column; texts are sequences of pieces, "" is <<>>.
NullText == <<Null>>

\* Rows as the enrichment passes leave them: the validated_* columns exist and
\* are null, or hold what an enrichment reply put there.
TrlRows ==
    { [title |-> "x", validated_trl |-> Null, validated_trl_reasoning |-> NullText,
       validated_trl_citations |-> NullText],
      [title |-> "y", validated_trl |-> "4", validated_trl_reasoning |-> <<"old">>,
       validated_trl_citations |-> <<"u0">>] }

\* What gather_evidence can return, by source_url.
EvidenceLists == { <<>>, <<"u1">>, <<"u1", "u2">> }

\* An index of a "citations" list: a Python int, or a float with a whole value,
\* which the "integer" type of the schema accepts as well.
IntIdx(n) == [int |-> TRUE, v |-> n]
FloatIdx(n) == [int |-> FALSE, v |-> n]

\* Objects that pass the "TRL Assessment" schema: a "trl" string, a
\* "justification" string and a "citations" list of integers.
TrlReplies ==
    [trl : {"5"}, justification : {<<"j">>, <<>>},
     citations : { <<>>, <<IntIdx(1)>>, <<IntIdx(2), IntIdx(1)>>, <<IntIdx(0), IntIdx(3)>>,
                   <<FloatIdx(1), IntIdx(2)>> }]

\* Mutant: every evidence item is cited, whatever the reply named.
CitedUrlsAll(ev, indices) == ev

\* Step 8: the URL of each cited index that is an item of the evidence list.
RECURSIVE CitedUrls(_, _)
CitedUrls(ev, indices) ==
    IF indices = <<>> THEN <<>>
    ELSE (IF Head(indices).int /\ 1 <= Head(indices).v /\ Head(indices).v <= Len(ev)
          THEN <<ev[Head(indices).v]>> ELSE <<>>) \o CitedUrls(ev, Tail(indices))

\* Steps 7-9: the triple (trl_str, combined_just, urls) of a successful _validate.
TrlTriple(ev, reply) ==
    LET urls == CitedUrls(ev, reply.citations)
    IN  [trl |-> reply.trl,
         just |-> IF urls # <<>> THEN reply.justification \o <<"Citations:">> \o urls
                  ELSE reply.justification,
         urls |-> urls]

\* The except branch of _validate: return None, "", [].
TrlFailed == [trl |-> Null, just |-> <<>>, urls |-> <<>>]

\* url_str = "\n".join(urls) if urls else ""
RECURSIVE UrlStr(_)
UrlStr(urls) ==
    IF urls = <<>> THEN <<>>
    ELSE IF Len(urls) = 1 THEN <<Head(urls)>>
    ELSE <<Head(urls), "\n">> \o UrlStr(Tail(urls))

\* Mutant: every row receives the result of the first task.
TrlWriteBackFirst(frame, res) ==
    [i \in 1..Len(frame) |->
        [frame[i] EXCEPT !.validated_trl = res[1].trl,
                         !.validated_trl_reasoning = res[1].just,
                         !.validated_trl_citations = UrlStr(res[1].urls)]]

\* Step 11: for i, (trl_val, combined_just, urls) in enumerate(results): the three
\* cells of row i are assigned.
TrlWriteBack(frame, res) ==
    [i \in 1..Len(frame) |->
        [frame[i] EXCEPT !.validated_trl = res[i].trl,
                         !.validated_trl_reasoning = res[i].just,
                         !.validated_trl_citations = UrlStr(res[i].urls)]]

\* _add_validated_trl(df) at its first suspension: one _validate task per row.
TrlStart ==
    /\ t_pc = "running"
    /\ trl_df \in UNION { [1..n -> TrlRows] : n \in 1..MaxTrlRows }
    /\ trl_df_in = trl_df
    /\ trlTask = [i \in 1..Len(trl_df) |-> "running"]
    /\ evidence = [i \in 1..Len(trl_df) |-> <<>>]
    /\ trl_results = [i \in 1..Len(trl_df) |-> TrlFailed]
    /\ trl_cited = [i \in 1..Len(trl_df) |-> <<>>]

\* The _validate task of row i gathers evidence, gets a schema-valid reply and
\* returns its triple.
TrlReturn(i) ==
    /\ t_pc = "running"
    /\ trlTask[i] = "running"
    /\ \E ev \in EvidenceLists, reply \in TrlReplies :
          /\ evidence' = [evidence EXCEPT ![i] = ev]
          /\ trl_results' = [trl_results EXCEPT ![i] = TrlTriple(ev, reply)]
          /\ trl_cited' = [trl_cited EXCEPT ![i] = reply.citations]
    /\ trlTask' = [trlTask EXCEPT ![i] = "done"]
    /\ UNCHANGED <<t_pc, trl_df, trl_df_in>>

\* Evidence gathering or the TRL call of row i raises: the except branch logs a
\* warning and the task returns (None, "", []).
TrlFail(i) ==
    /\ t_pc = "running"
    /\ trlTask[i] = "running"
    /\ \E ev \in EvidenceLists : evidence' = [evidence EXCEPT ![i] = ev]
    /\ trl_results' = [trl_results EXCEPT ![i] = TrlFailed]
    /\ trlTask' = [trlTask EXCEPT ![i] = "failed"]
    /\ UNCHANGED <<t_pc, trl_df, trl_df_in, trl_cited>>

\* gather returned: the write-back loop, return df.
TrlMerge ==
    /\ t_pc = "running"
    /\ \A i \in 1..Len(trl_df) : trlTask[i] # "running"
    /\ trl_df' = TrlWriteBack(trl_df, trl_results)
    /\ t_pc' = "returned"
    /\ UNCHANGED <<trl_df_in, trlTask, evidence, trl_results, trl_cited>>

InitTrl == TrlStart /\ LLMIdle /\ OrchIdle /\ EnrichIdle /\ RegenIdle /\ DedupIdle /\ FlatIdle

NextTrl ==
    \/ \E i \in DOMAIN trl_df : TrlReturn(i) /\ UNCHANGED <<llmVars, orchVars, enrichVars, regenVars, dedupVars, flatVars>>
    \/ \E i \in DOMAIN trl_df : TrlFail(i) /\ UNCHANGED <<llmVars, orchVars, enrichVars, regenVars, dedupVars, flatVars>>
    \/ TrlMerge /\ UNCHANGED <<llmVars, orchVars, enrichVars, regenVars, dedupVars, flatVars>>

SpecTrl == InitTrl /\ [][NextTrl]_vars

\* ------------------------------------------------------------------------
\* _flatten_solution (app.py), on its own
\* ------------------------------------------------------------------------

\* Values of a key of a solution object: missing, None, a string (a sequence
\* of characters) or a list of strings.
MissingV == [kind |-> "missing", val |-> <<>>]
NoneV == [kind |-> "none", val |-> <<>>]
StrV(s) == [kind |-> "str", val |-> s]
ListV(l) == [kind |-> "list", val |-> l]

\* The values a key takes in the objects handed to the flattener.
KeyValues ==
    { MissingV, NoneV, StrV(<<>>), StrV(<<"N", "o", "n", "e">>), StrV(T_ab), ListV(<<>>) }

\* The agent names of refined records, "System" of the early return included.
FlattenAgents == IDEATION_AGENTS \cup {"System"}

\* Objects handed to the flattener, by their title-like keys.
SolShapes ==
    [title : KeyValues, Title : {MissingV, StrV(T_cd)}, Name : KeyValues, name : KeyValues]

\* k in sol and sol[k] not in (None, "None", "")
Usable(v) ==
    /\ v.kind # "missing"
    /\ v.kind # "none"
    /\ v \notin {StrV(<<>>), StrV(<<"N", "o", "n", "e">>)}

\* _get(*keys): the value of the first key with a usable value, else None.
FlattenGet(obj, keys) ==
    LET hits == SelectSeq(keys, LAMBDA k : Usable(obj[k]))
    IN  IF hits = <<>> THEN NoneV ELSE obj[Head(hits)]

\* "\n".join(map(str, v))
RECURSIVE JoinLines(_)
JoinLines(l) ==
    IF l = <<>> THEN <<>>
    ELSE IF Len(l) = 1 THEN Head(l)
    ELSE Head(l) \o <<"\n">> \o JoinLines(Tail(l))

\* The closing loop: a list value becomes one string.
ToScalar(v) == IF v.kind = "list" THEN StrV(JoinLines(v.val)) ELSE v

\* The "agent" and "title" columns of the row. The per-agent branches assign
\* other columns only, so they are left out.
FlattenSolution(agent, obj) ==
    [agent |-> agent,
     title |-> ToScalar(FlattenGet(obj, <<"title", "title", "Name", "name">>))]

NoRow == [agent |-> "", title |-> NoneV]


\* rows = [_flatten_solution(sol["agent"], sol) for sol in refined]: one call.
FlattenStart ==
    /\ flat_pc = "start"
    /\ flat_agent \in FlattenAgents
    /\ flat_sol \in SolShapes
    /\ flat_row = NoRow

FlattenApply ==
    /\ flat_pc = "start"
    /\ flat_row' = FlattenSolution(flat_agent, flat_sol)
    /\ flat_pc' = "done"
    /\ UNCHANGED <<flat_agent, flat_sol>>

InitFlatten == FlattenStart /\ LLMIdle /\ OrchIdle /\ EnrichIdle /\ RegenIdle /\ DedupIdle /\ TrlIdle

NextFlatten ==
    \/ FlattenApply /\ UNCHANGED <<llmVars, orchVars, enrichVars, regenVars, dedupVars, trlVars>>

SpecFlatten == InitFlatten /\ [][NextFlatten]_vars

\* ---- properties of call_llm_with_schema ----

LLMTerminal == l_pc \in {"returned", "raised"}

\* The k-th invocation yields a reply text (the transport did not raise).
IsReply(k) == CallLlm(script[k]) # Raise

\* The k-th reply passes extraction and schema validation.
ReplyValid(k) ==
    /\ IsReply(k)
    /\ ExtractJson(CallLlm(script[k])).ok
    /\ SchemaValid(ExtractJson(CallLlm(script[k])).obj)

ReplyInvalid(k) == IsReply(k) /\ ~ReplyValid(k)

\* The endpoint's first n replies are invalid and reply n+1 is valid, n < budget.
InvalidThenValid(n) ==
    /\ n < max_attempts
    /\ \A k \in 1..n : ReplyInvalid(k)
    /\ ReplyValid(n + 1)

\* C1 (schema retry convergence): when the first N replies (0 <= N < max_attempts)
\* are invalid and reply N+1 is schema-valid, the model is never invoked more than
\* N+1 times, and the call can only end by returning the object parsed from reply
\* N+1 after exactly N+1 invocations.
C1_RetryConvergence ==
    \A n \in 0..MaxBudget :
        InvalidThenValid(n) =>
            /\ invocations <= n + 1
            /\ l_pc # "raised"
            /\ l_pc = "returned" =>
                  /\ invocations = n + 1
                  /\ l_result = ExtractJson(CallLlm(script[n + 1])).obj

\* C1 witness: two invalid replies, then a valid one, and the call has returned.
C1_Witness ==
    /\ InvalidThenValid(2)
    /\ l_pc = "returned"
    /\ invocations = 3

\* C2 (retry exhaustion): the model is never invoked more than max_attempts times
\* by one call, and when the first max_attempts replies are all invalid the call
\* can only end by raising RuntimeError after exactly max_attempts invocations.
C2_RetryExhaustion ==
    /\ invocations <= max_attempts
    /\ (\A k \in 1..max_attempts : ReplyInvalid(k)) =>
          /\ l_pc # "returned"
          /\ l_pc = "raised" =>
                /\ l_exc = "RuntimeError"
                /\ invocations = max_attempts

\* C2 witness: three invalid replies of three different kinds exhaust a budget of 3.
C2_Witness ==
    /\ max_attempts = 3
    /\ \A k \in 1..3 : ReplyInvalid(k)
    /\ ~ExtractJson(CallLlm(script[1])).ok
    /\ ExtractJson(CallLlm(script[2])).ok
    /\ l_pc = "raised"
    /\ invocations = 3

\* Replies with no balanced JSON span, or a span that does not parse: prose
\* only, a truncated object, an object closed by the wrong bracket.
Malformed == { <<"p">>, <<"{", "r">>, <<"{", "r", "]">> }

\* Scenario D: fenced JSON with the required key, followed by commentary.
ScenarioD == <<"F", "{", "r", "}", "F", "p">>

CleanValid == <<"{", "r", "}">>

\* The object parsed from CleanValid and from the span inside ScenarioD.
RequiredOnly == [type |-> "object", members |-> {"r"}]

\* raw holds a reply text (some invocation has yielded one) and it is in texts.
RawIn(texts) == invocations >= 1 /\ IsReply(1) /\ raw \in texts

\* The treatment the claim describes, for the set bad of replies: a reply in bad
\* is never the one the call returns on; once it has been checked the attempt
\* counter has moved on and the next prompt is the repair prompt; the call gives
\* up on it only when the budget is spent; and when the reply after it is clean
\* valid JSON within the budget, the call ends by returning that object.
HandledAsInvalid(bad) ==
    /\ l_pc = "returned" => ~RawIn(bad)
    /\ (l_pc \in {"loop", "invoke"} /\ RawIn(bad)) =>
          attempt = invocations + 1 /\ user_prompt = "fix"
    /\ (l_pc = "raised" /\ l_exc = "RuntimeError" /\ RawIn(bad)) =>
          invocations = max_attempts
    /\ \A i \in 1..MaxBudget :
          ( /\ LLMTerminal
            /\ invocations >= i
            /\ i + 1 <= max_attempts
            /\ script[i].kind = "200" /\ script[i].body \in bad
            /\ script[i + 1].kind = "200" /\ script[i + 1].body = CleanValid )
          => (l_pc = "returned" /\ invocations = i + 1 /\ l_result = RequiredOnly)

\* C16 as stated (malformed JSON is handled like a schema violation, a fenced
\* reply followed by commentary included): every reply with no extractable or
\* parsable JSON span, and the Scenario D reply, consumes an attempt, triggers
\* the repair prompt and never ends the call; a clean valid next reply is returned.
C16_MalformedJsonRetried == HandledAsInvalid(Malformed \cup {ScenarioD})

\* C16 amended: the same for every reply with no extractable or parsable JSON
\* span; the Scenario D reply is not one of them: once it has been checked the
\* call has returned the object inside the fence, without another attempt.
C16_MalformedJsonRetriedAmended ==
    /\ HandledAsInvalid(Malformed)
    /\ (RawIn({ScenarioD}) /\ l_pc # "check") =>
          (l_pc = "returned" /\ l_result = RequiredOnly)

\* C16 witness: a malformed first reply, a clean valid second reply, and the call
\* has returned on the second of three budgeted attempts.
C16_Witness ==
    /\ max_attempts = 3
    /\ script[1].kind = "200" /\ script[1].body \in Malformed
    /\ script[2].kind = "200" /\ script[2].body = CleanValid
    /\ l_pc = "returned"
    /\ invocations = 2
    /\ attempt = 2
    /\ user_prompt = "fix"

\* C17 (transport failures stay inside the retry loop): a transport-level failure
\* of the k-th invocation (non-200 status, missing key, an error raised by the
\* HTTP client) never ends the call by itself: the call does not raise a
\* transport error, and when attempts remain after k the next one is made.
C17_TransportFailureRetried ==
    /\ ~(l_pc = "raised" /\ l_exc = "transport")
    /\ \A k \in 1..MaxBudget :
          (LLMTerminal /\ k <= invocations /\ k < max_attempts /\ script[k].kind # "200")
              => invocations >= k + 1

\* C18 (exhaustion diagnostics): when the call has failed after its last attempt,
\* the error it raised carries the raw text of the last reply and the parse or
\* validation error of the last attempt.
C18_ExhaustionDiagnostics ==
    (l_pc = "raised" /\ l_exc = "RuntimeError" /\ invocations >= 1) =>
        /\ "raw" \in DOMAIN l_exc_msg /\ l_exc_msg["raw"] = raw
        /\ "err" \in DOMAIN l_exc_msg /\ l_exc_msg["err"] = err

\* ---- properties of ideate_review_refactor ----

Ideators == Range(IdeationAgentsOf(workflow))
Reviewers == Range(ReviewAgentsOf(workflow))

\* The candidates that survive the fuzzy dedup (meaningful once ideation is over).
Deduped == Dedup(Flatten(IdeationAgentsOf(workflow), chunks), ExistingNorms(existing))

IdeationOver == \A a \in Ideators : iTask[a] = "done"

\* Existing concepts were supplied and no candidate survived the dedup.
NoNovel == existing # <<>> /\ Deduped = <<>>

AgentsIn(seq) == {seq[i].agent : i \in 1..Len(seq)}

\* C3 (ideation failure isolation), as claimed: when the call of an ideation agent
\* fails, that agent contributes an empty list and the orchestration goes on to
\* dedup, review and refine instead of aborting.
C3_IdeationFailureIsolated ==
    \A a \in IDEATION_AGENTS :
        iTask[a] = "failed" => o_pc # "raised" /\ chunks[a] = <<>>

\* C4 (strict phase ordering): a review task exists only when every ideation task
\* has completed and raw holds the deduplicated candidates; a refine task exists
\* only when every review task has completed; and the function has returned only
\* with no refine task in flight, every refine task having completed unless the
\* run ended in the no-novel-concepts return.
C4_PhaseOrdering ==
    /\ \A r \in REVIEW_AGENTS :
          rTask[r] # "idle" =>
              /\ \A a \in Ideators : iTask[a] = "done"
              /\ o_raw = RenameKeys(Deduped)
    /\ \A a \in IDEATION_AGENTS :
          fTask[a] # "idle" => \A r \in Reviewers : rTask[r] = "done"
    /\ o_pc = "returned" =>
          /\ \A a \in IDEATION_AGENTS : fTask[a] # "running"
          /\ \A r \in REVIEW_AGENTS : rTask[r] # "running"
          /\ ~NoNovel => \A a \in Ideators : fTask[a] = "done"

\* C4 witness: a full run returned after both reviewers and two refine invocations.
C4_Witness ==
    /\ o_pc = "returned"
    /\ \A r \in Reviewers : rTask[r] = "done"
    /\ Cardinality({a \in Ideators : refCalls[a] = 1}) = 2

\* C5 (no-novel-concepts terminal state): once ideation is over with existing
\* concepts supplied and no candidate surviving the dedup, the run never enters
\* review or refine and never raises, no reviewer and no refine agent is invoked,
\* and the value returned is ([], {}, [the one synthetic record]).
C5_NoNovelTerminal ==
    (IdeationOver /\ NoNovel) =>
        /\ o_pc \in {"ideation", "returned"}
        /\ \A r \in REVIEW_AGENTS : rTask[r] = "idle" /\ ~revReply[r].ok
        /\ \A a \in IDEATION_AGENTS : fTask[a] = "idle" /\ refCalls[a] = 0
        /\ o_pc = "returned" =>
              /\ ret.raw = <<>>
              /\ ret.feedback = EmptyMap
              /\ Len(ret.refined) = 1
              /\ ret.refined[1].agent = "System"
              /\ ret.refined[1] = NoNewConcepts

\* C5 witness: candidates were produced, all were removed by the dedup, and the
\* run returned.
C5_Witness ==
    /\ o_pc = "returned"
    /\ NoNovel
    /\ Flatten(IdeationAgentsOf(workflow), chunks) # <<>>

\* C6 (reviewer failure isolation): a failed reviewer call never makes the run
\* raise; from the start of review on, every surviving candidate with a non-empty
\* title is a key of the feedback map; and once review is over the originating
\* agent of every such candidate has been invoked for refinement.
C6_ReviewerFailureIsolated ==
    /\ (\E r \in REVIEW_AGENTS : rTask[r] = "done" /\ ~revReply[r].ok) => o_pc # "raised"
    /\ o_pc \in {"review", "refine", "returned"} =>
          \A i \in 1..Len(o_raw) :
              Truthy(TitleOf(o_raw[i])) =>
                  /\ TitleOf(o_raw[i]) \in DOMAIN feedback
                  /\ o_pc \in {"refine", "returned"} =>
                        /\ refCalls[o_raw[i].agent] = 1
                        /\ fTask[o_raw[i].agent] \in {"running", "done"}
                  /\ o_pc = "returned" => TitleOf(o_raw[i]) \in DOMAIN ret.feedback

\* C6 witness: a reviewer failed, the run returned, and a candidate nobody
\* commented on is a key mapped to the empty list, its agent having been refined.
C6_Witness ==
    /\ o_pc = "returned"
    /\ \E r \in Reviewers : ~revReply[r].ok
    /\ \E i \in 1..Len(o_raw) :
          /\ Truthy(TitleOf(o_raw[i]))
          /\ ret.feedback[TitleOf(o_raw[i])] = <<>>
          /\ refCalls[o_raw[i].agent] = 1

\* Number of items of reviewer r's reply that carry comment c for title t.
Returned(r, t, c) ==
    IF revReply[r].ok /\ rTask[r] = "done"
    THEN Cardinality({i \in 1..Len(revReply[r].items) :
                         /\ Field(revReply[r].items[i].title) = t
                         /\ Field(revReply[r].items[i].comment) = c})
    ELSE 0

RECURSIVE SumReturned(_, _, _)
SumReturned(rs, t, c) ==
    IF rs = {} THEN 0
    ELSE LET r == CHOOSE x \in rs : TRUE
         IN  Returned(r, t, c) + SumReturned(rs \ {r}, t, c)

Occurrences(seq, c) == Cardinality({i \in 1..Len(seq) : seq[i] = c})

ReviewTitles == {Field(i.title) : i \in ReviewItems} \ {<<>>}
ReviewComments == {Field(i.comment) : i \in ReviewItems} \ {<<>>}

\* C7 (append, not replace): at every point of the review phase and after it, for
\* every title and comment, the feedback list of the title holds the comment
\* exactly as many times as the reviewers that have completed returned it for that
\* title, whatever the order in which they completed.
C7_AppendNotReplace ==
    o_pc \in {"review", "refine", "returned"} /\ ~(o_pc = "returned" /\ NoNovel) =>
        \A t \in ReviewTitles \cup DOMAIN feedback :
            \A c \in ReviewComments :
                LET n == SumReturned(REVIEW_AGENTS, t, c) IN
                /\ n > 0 => t \in DOMAIN feedback
                /\ t \in DOMAIN feedback => Occurrences(feedback[t], c) = n
                /\ o_pc = "returned" => ret.feedback = feedback

\* C7 witness: both reviewers returned a comment for the same title and the list
\* of that title holds both.
C7_Witness ==
    /\ o_pc = "returned"
    /\ \A r \in Reviewers : Returned(r, T_ab, <<"x">>) + Returned(r, T_ab, <<"y">>) = 1
    /\ Len(ret.feedback[T_ab]) = 2

\* C8 (refine invocation set): no agent is invoked for refinement before the
\* refine phase or more than once; in the refine phase an ideation agent has been
\* invoked exactly when a surviving candidate carries its tag; and the payload of
\* the invocation holds exactly the candidates with that tag, with one feedback
\* entry per titled candidate of that agent, carrying the feedback of that title.
C8_RefineInvocationSet ==
    /\ \A a \in IDEATION_AGENTS : refCalls[a] <= 1
    /\ o_pc \in {"ideation", "review", "raised"} =>
          \A a \in IDEATION_AGENTS : refCalls[a] = 0
    /\ o_pc \in {"refine", "returned"} =>
          \A a \in IDEATION_AGENTS :
              LET own == {i \in 1..Len(o_raw) : o_raw[i].agent = a}
                  p == payload[a]
              IN  /\ refCalls[a] = IF own # {} THEN 1 ELSE 0
                  /\ own = {} => p = NoPayload
                  /\ Len(p.concepts) = Cardinality(own)
                  /\ \A k \in 1..Len(p.concepts) :
                        p.concepts[k].agent = a /\ \E i \in own : o_raw[i] = p.concepts[k]
                  /\ {p.feedback[k].title : k \in 1..Len(p.feedback)}
                        = {TitleOf(o_raw[i]) : i \in {j \in own : Truthy(TitleOf(o_raw[j]))}}
                  /\ \A k \in 1..Len(p.feedback) :
                        p.feedback[k].comments = feedback[p.feedback[k].title]

\* C8 witness: one ideation agent of the workflow has no surviving candidate and
\* was not invoked, another was invoked once with feedback that holds a comment.
C8_Witness ==
    /\ o_pc = "returned"
    /\ \E a \in Ideators : ideaCalls # {} /\ a \in ideaCalls /\ refCalls[a] = 0
    /\ \E a \in Ideators :
          /\ refCalls[a] = 1
          /\ \E k \in 1..Len(payload[a].feedback) : payload[a].feedback[k].comments # <<>>

\* C9 as claimed (P5): in every run that returned, the agent names on the refined
\* list are a subset of the agent names on the deduplicated candidates.
C9_RefinedAgentsSubset ==
    o_pc = "returned" => AgentsIn(ret.refined) \subseteq AgentsIn(Deduped)

\* C9 as amended: in every run that returned without ending in the
\* no-novel-concepts terminal state, the agent names on the refined list are a
\* subset of the agent names on the deduplicated candidates; a run that ends in the
\* terminal state returns the single record tagged "System".
C9_RefinedAgentsSubsetAmended ==
    o_pc = "returned" =>
        IF NoNovel
        THEN AgentsIn(ret.refined) = {"System"} /\ AgentsIn(Deduped) = {}
        ELSE AgentsIn(ret.refined) \subseteq AgentsIn(Deduped)

\* C9 witness: a run returned refined records of one agent out of the two that
\* had surviving candidates.
C9_Witness ==
    /\ o_pc = "returned"
    /\ ~NoNovel
    /\ ret.refined # <<>>
    /\ Cardinality(AgentsIn(Deduped)) = 2
    /\ Cardinality(AgentsIn(ret.refined)) = 1

\* C19 (every agent output entering the pipeline is schema-validated): for every
\* ideation agent whose task completed after its model was invoked, the object
\* came from the schema-validated agent call and the agent's candidates are the
\* items of an object that passes the agent's schema.
C19_CandidatesSchemaValidated ==
    \A a \in DOMAIN iTask :
        (iTask[a] = "done" /\ a \in ideaCalls) =>
            /\ Branch(workflow, a) = "agent"
            /\ \E reply \in AgentReplies : chunks[a] = Tag(Unwrap(reply), a)


\* C23 (feedback map keys are candidate titles): once the review phase is over,
\* every key of the feedback map is the title of a surviving candidate, whatever
\* titles the reviewers named in their replies.
C23_FeedbackKeysAreTitles ==
    o_pc = "refine" =>
        DOMAIN feedback \subseteq { TitleOf(o_raw[i]) : i \in 1..Len(o_raw) }


\* C24 (fan-out write discipline): while a _review task of the review phase is
\* still in flight, the shared feedback map holds what it held when the tasks
\* were launched; comments are merged only after every task has completed.
C24_NoWriteInFlight ==
    (o_pc = "review" /\ \E r \in REVIEW_AGENTS : rTask[r] = "running") =>
        feedback = SeedFeedback(o_raw)


\* The records of a list that carry the tag of an agent, in order.
ByAgent(seq, a) == SelectSeq(seq, LAMBDA s : s.agent = a)

\* Every record of the returned refined list is an item that the refine call of
\* the agent it is tagged with returned.
FromRefineCalls ==
    \A k \in 1..Len(ret.refined) :
        LET rec == ret.refined[k] IN
        /\ rec.agent \in IDEATION_AGENTS
        /\ refCalls[rec.agent] = 1
        /\ refReply[rec.agent].ok
        /\ \E j \in 1..Len(refReply[rec.agent].items) :
              [refReply[rec.agent].items[j] EXCEPT !.agent = rec.agent] = rec

\* C28 as claimed (refined output contains only refinement results): in every
\* run that returned, every record of the refined list was returned by a refine
\* invocation and carries the tag of the agent invoked.
C28_RefinedOnlyRefineResults ==
    o_pc = "returned" => FromRefineCalls

\* C28 as amended: in every run that returned without ending in the
\* no-novel-concepts terminal state, every record of the refined list was returned
\* by a refine invocation and carries the tag of the agent invoked, and the records
\* tagged with an agent are exactly the items its refine call returned, none when
\* the call failed or was not made; a run that ends in the terminal state made no
\* refine invocation and returns the one synthetic record.
C28_RefinedOnlyRefineResultsAmended ==
    o_pc = "returned" =>
        IF NoNovel
        THEN /\ ret.refined = <<NoNewConcepts>>
             /\ \A a \in IDEATION_AGENTS : refCalls[a] = 0
        ELSE /\ FromRefineCalls
             /\ \A a \in IDEATION_AGENTS :
                   ByAgent(ret.refined, a) =
                       IF refReply[a].ok
                       THEN [j \in 1..Len(refReply[a].items) |->
                                [refReply[a].items[j] EXCEPT !.agent = a]]
                       ELSE <<>>

\* C28 witness: a run returned in which the refine call of an agent with
\* surviving candidates failed and no record carries its tag, while another
\* agent's refined record is on the list.
C28_Witness ==
    /\ o_pc = "returned"
    /\ ~NoNovel
    /\ \E a \in Ideators :
          /\ refCalls[a] = 1
          /\ ~refReply[a].ok
          /\ ByAgent(o_raw, a) # <<>>
          /\ ByAgent(ret.refined, a) = <<>>
    /\ \E b \in Ideators : refReply[b].ok /\ ByAgent(ret.refined, b) # <<>>


IntegratedInvoked == {"Product Ideation Agent", "Integrated Solutions Agent"}

\* C30 (agents of the "Integrated Solutions Ideation" workflow): in that workflow
\* only the Product Ideation Agent and the Integrated Solutions Agent are invoked,
\* for ideation and for refinement; every other ideation agent contributes no
\* candidate, and its name is on no record of the raw or refined output.
C30_IntegratedInvokesTwo ==
    workflow = "Integrated Solutions Ideation" =>
        /\ ideaCalls \subseteq IntegratedInvoked
        /\ \A a \in IDEATION_AGENTS \ IntegratedInvoked :
              /\ chunks[a] = <<>>
              /\ refCalls[a] = 0
              /\ fTask[a] # "running"
              /\ payload[a] = NoPayload
              /\ fChunks[a] = <<>>
        /\ AgentsIn(o_raw) \subseteq IntegratedInvoked
        /\ o_pc = "returned" =>
              /\ AgentsIn(ret.raw) \subseteq IntegratedInvoked
              /\ AgentsIn(ret.refined) \subseteq IntegratedInvoked \cup {"System"}

\* C30 witness: a run of the workflow returned after both agents were invoked for
\* ideation and for refinement, the two research agents having been skipped, with
\* refined records on the list.
C30_Witness ==
    /\ workflow = "Integrated Solutions Ideation"
    /\ o_pc = "returned"
    /\ ideaCalls = IntegratedInvoked
    /\ \A a \in IntegratedInvoked : refCalls[a] = 1
    /\ iTask["Scientific Research Agent 1"] = "done"
    /\ iTask["Scientific Research Agent 2"] = "done"
    /\ AgentsIn(ret.refined) = IntegratedInvoked

\* ---- properties of _enrich_df_async ----

\* C10 (P6, enrichment never overwrites): after a pass has returned, every row
\* still has every column it had, and every cell that held a value other than
\* null and "None" when the pass started holds that same value, whatever the
\* agent returned for the row.
C10_EnrichNeverOverwrites ==
    e_pc = "returned" =>
        /\ Len(df) = Len(df_in)
        /\ \A i \in 1..Len(df_in) :
              \A k \in DOMAIN df_in[i] :
                  df_in[i][k] \notin {Null, "None"} =>
                      k \in DOMAIN df[i] /\ df[i][k] = df_in[i][k]

\* C10 witness: in one returned pass the agent named a different value for a
\* populated cell, which kept its value, and a null cell of the same row took the
\* agent's value.
C10_Witness ==
    /\ e_pc = "returned"
    /\ \E i \in 1..Len(df_in) :
          LET nr == RenameSuggestion(agent_name, PickNewRow(results[i])) IN
          /\ \E k \in DOMAIN df_in[i] \cap DOMAIN nr :
                /\ df_in[i][k] \notin {Null, "None"}
                /\ Scalarize(nr[k]) # df_in[i][k]
                /\ df[i][k] = df_in[i][k]
          /\ \E k \in DOMAIN df_in[i] \cap DOMAIN nr :
                /\ df_in[i][k] \in {Null, "None"}
                /\ df[i][k] = Scalarize(nr[k])
                /\ df[i][k] # df_in[i][k]
          /\ \E k \in DOMAIN nr : k \notin DOMAIN df_in[i] /\ k \in DOMAIN df[i]

\* C21 (per-row enrichment failure isolation): when the agent call of one row
\* of an enrichment pass fails, the pass still returns normally, the failed row
\* keeps its contents of before the pass, and no failure reaches the caller.
C21_EnrichFailureIsolated ==
    \A i \in 1..Len(eTask) :
        eTask[i] = "failed" =>
            /\ e_pc # "raised"
            /\ e_pc = "returned" => df[i] = df_in[i]

\* ---- properties of the regeneration block ----

\* Sections within k hops of s in G.
RECURSIVE Within(_, _, _)
Within(G, s, k) ==
    IF k = 0 THEN {s}
    ELSE LET near == Within(G, s, k - 1)
         IN  near \cup { n \in Nodes \cup DOMAIN G :
                          \E p \in near : p \in DOMAIN G /\ n \in G[p] }

\* C11 (P7, bounded cascade): once built, the cascade set is the edited section,
\* its direct dependents and their dependents; it holds no section whose hop
\* distance from the edited section is 3 or more; and it is just the edited
\* section when that section is not a key of the graph.
C11_BoundedCascade ==
    r_pc = "loop" =>
        /\ cascade = {edited}
                       \cup { n \in Nodes : edited \in DOMAIN graph /\ n \in graph[edited] }
                       \cup { n \in Nodes : \E d \in Nodes :
                                 /\ edited \in DOMAIN graph /\ d \in graph[edited]
                                 /\ d \in DOMAIN graph /\ n \in graph[d] }
        /\ \A n \in Within(graph, edited, 4) \ Within(graph, edited, 2) : n \notin cascade
        /\ (edited \notin DOMAIN graph => cascade = {edited})

\* C11 witness: on a cyclic graph with a section three hops from the edited one,
\* the cascade set has been built, reaches two hops and leaves that section out.
C11_Witness ==
    /\ r_pc = "loop"
    /\ Within(graph, edited, 3) # Within(graph, edited, 2)
    /\ Within(graph, edited, 2) # Within(graph, edited, 1)
    /\ \E n \in Nodes : n \in DOMAIN graph /\ edited \in graph[n] /\ n \in cascade
    /\ cascade # {edited}

\* C12 (cascade patch frame): throughout a regeneration every document key
\* outside the cascade set holds the value the regeneration received, no key
\* outside the cascade set is added, and the title holds the value the
\* regeneration received, also when title is cascaded and the reply has a title.
C12_PatchFrame ==
    /\ \A k \in DOMAIN concept :
          k \notin cascade => k \in DOMAIN concept_in /\ concept[k] = concept_in[k]
    /\ \A k \in DOMAIN concept_in : k \in DOMAIN concept
    /\ concept # NoDoc => concept["title"] = concept_in["title"]

\* C12 witness: a patch was applied that changed the document, while the reply
\* carried another title with title cascaded, and a key outside the cascade set.
C12_Witness ==
    /\ r_pc = "rerun"
    /\ concept # concept_in
    /\ "title" \in cascade
    /\ \E a \in DOMAIN replies :
          /\ replies[a]["title"] # concept_in["title"]
          /\ \E k \in DOMAIN replies[a] :
                k \notin cascade /\ k \in DOMAIN concept_in /\ replies[a][k] # concept_in[k]
          /\ \E k \in DOMAIN replies[a] : k \notin cascade /\ k \notin DOMAIN concept_in

\* Agents the routing table makes the owner of a cascaded section.
RoutedOwners == { SECTION_OWNERS[sec] : sec \in cascade \cap DOMAIN SECTION_OWNERS }

\* C13 (cascade owner failure isolation): when a regeneration in which the call
\* of an owning agent failed is over, the failure is among the warnings and
\* every other owner of a cascaded section was invoked and returned its patch.
C13_OwnerFailureIsolated ==
    (r_pc = "rerun" /\ warnings # {}) =>
        \A a \in RoutedOwners \ warnings : a \in DOMAIN replies


\* C26 (cascade owner routing): when a regeneration is over, every agent that
\* SECTION_OWNERS makes the owner of a cascaded section has been invoked, with
\* a role prompt that names, of the routed sections, exactly the cascaded ones
\* routed to it; so risks_mitigations is named to its routed owner and to no
\* other agent.
C26_OwnersRouted ==
    r_pc = "rerun" =>
        /\ \A a \in RoutedOwners :
              /\ a \in DOMAIN prompted
              /\ prompted[a] \cap DOMAIN SECTION_OWNERS =
                    { sec \in cascade \cap DOMAIN SECTION_OWNERS : SECTION_OWNERS[sec] = a }

\* C27 (regeneration diff): when a regeneration that applied a patch changing
\* at least one section is over, a non-empty diff is stored in last_diff and
\* every cascaded section is in the flash list.
C27_DiffStored ==
    (r_pc = "rerun" /\ concept # concept_in) =>
        /\ last_diff # None
        /\ cascade \subseteq flash_sections

\* ---- properties of the fuzzy dedupe ----

\* Positions of the candidates whose normalised title is not similar (ratio >=
\* 0.75) to any normalised existing title.
Survivors ==
    { i \in 1..Len(candidates) :
        ~\E j \in 1..Len(existing_titles) :
            Similar(NormalizeTitle(DedupTitle(candidates[i])),
                    NormalizeTitle(existing_titles[j])) }

\* C14 (dedup rule): the filtered list holds exactly the candidates whose
\* normalised title is not similar to any normalised existing title, in their
\* original order and unchanged; with no existing titles it is the candidate list.
C14_DedupRule ==
    d_pc # "start" =>
        /\ Len(d_filtered) = Cardinality(Survivors)
        /\ \A n \in 1..Len(d_filtered) :
              \E i \in Survivors :
                  /\ Cardinality({k \in Survivors : k < i}) = n - 1
                  /\ d_filtered[n] = candidates[i]
        /\ (existing_titles = <<>> => d_filtered = candidates)

\* C14 witness: one candidate was dropped for a title that is similar but not
\* equal after normalisation, and a later one with a dissimilar title was kept.
C14_Witness ==
    /\ d_pc = "filtered"
    /\ Len(candidates) = 2
    /\ d_filtered = <<candidates[2]>>
    /\ \E j \in 1..Len(existing_titles) :
          /\ Similar(NormalizeTitle(DedupTitle(candidates[1])), NormalizeTitle(existing_titles[j]))
          /\ NormalizeTitle(DedupTitle(candidates[1])) # NormalizeTitle(existing_titles[j])

\* C15 (P3, dedup idempotence): the dedupe applied to its own output with the
\* same existing titles returns that output.
C15_DedupIdempotent == d_pc = "refiltered" => d_refiltered = d_filtered

\* C15 witness: the first application dropped a candidate and kept one, and the
\* second application has run on the result.
C15_Witness ==
    /\ d_pc = "refiltered"
    /\ d_filtered # <<>>
    /\ Len(d_filtered) < Len(candidates)

\* ---- properties of _add_validated_trl_async ----

\* C20 (TRL validation degrades per row): the pass can end only by returning;
\* once every task is over it has not raised; and when it has returned, each row
\* whose evidence gathering or TRL call failed has a null validated TRL and empty
\* reasoning and citations, while every other row holds the result of its own task.
C20_TrlDegradesPerRow ==
    /\ t_pc \in {"idle", "running", "returned"}
    /\ t_pc = "returned" =>
          \A i \in 1..Len(trl_df) :
              IF trlTask[i] = "failed"
              THEN /\ trl_df[i].validated_trl = Null
                   /\ trl_df[i].validated_trl_reasoning = <<>>
                   /\ trl_df[i].validated_trl_citations = <<>>
              ELSE /\ trl_df[i].validated_trl = trl_results[i].trl
                   /\ trl_df[i].validated_trl_reasoning = trl_results[i].just
                   /\ trl_df[i].validated_trl_citations = UrlStr(trl_results[i].urls)

\* C20 witness: the pass returned with the first row failed and degraded and the
\* second row holding a TRL and a citation of its own.
C20_Witness ==
    /\ t_pc = "returned"
    /\ Len(trl_df) = 2
    /\ trlTask[1] = "failed"
    /\ trl_df[1].validated_trl = Null
    /\ trlTask[2] = "done"
    /\ trl_df[2].validated_trl = "5"
    /\ trl_df[2].validated_trl_citations # <<>>


\* C22 (no pass overwrites a populated field): when the TRL validation pass has
\* returned, every validated_trl, validated_trl_reasoning and
\* validated_trl_citations cell that was populated (not null, not empty) before
\* the pass holds the value it had before the pass.
C22_TrlKeepsPopulated ==
    t_pc = "returned" =>
        \A i \in 1..Len(trl_df_in) :
            /\ trl_df_in[i].validated_trl # Null =>
                  trl_df[i].validated_trl = trl_df_in[i].validated_trl
            /\ trl_df_in[i].validated_trl_reasoning \notin {NullText, <<>>} =>
                  trl_df[i].validated_trl_reasoning = trl_df_in[i].validated_trl_reasoning
            /\ trl_df_in[i].validated_trl_citations \notin {NullText, <<>>} =>
                  trl_df[i].validated_trl_citations = trl_df_in[i].validated_trl_citations


\* The cited indices of row i that are Python ints within 1..len(evidence).
CitedInRange(i) ==
    SelectSeq(trl_cited[i],
              LAMBDA c : c.int /\ 1 <= c.v /\ c.v <= Len(evidence[i]))

\* C29 (TRL citations come only from the evidence block): when the pass has
\* returned, the citations cell of every row holds, joined by newlines, the URL
\* of one evidence item of that row per cited index that is an integer from 1 to
\* the number of its evidence items, in cited order, and nothing else, whatever
\* the order in which the tasks completed.
C29_CitationsFromEvidence ==
    t_pc = "returned" =>
        \A i \in 1..Len(trl_df) :
            LET cited == CitedInRange(i)
                cell == trl_df[i].validated_trl_citations
            IN  /\ Len(cell) = IF cited = <<>> THEN 0 ELSE 2 * Len(cited) - 1
                /\ \A k \in 1..Len(cited) : cell[2 * k - 1] = evidence[i][cited[k].v]
                /\ \A k \in 1..(Len(cited) - 1) : cell[2 * k] = "\n"

\* C29 witness: the pass returned with two rows of different evidence; the first
\* row cites its items 2 and 1 in that order, the second row's reply cited a
\* float and an index beyond its evidence, which left nothing.
C29_Witness ==
    /\ t_pc = "returned"
    /\ Len(trl_df) = 2
    /\ trl_cited[1] = <<IntIdx(2), IntIdx(1)>>
    /\ evidence[1] = <<"u1", "u2">>
    /\ trl_df[1].validated_trl_citations = <<"u2", "\n", "u1">>
    /\ trl_cited[2] = <<FloatIdx(1), IntIdx(2)>>
    /\ evidence[2] = <<"u1">>
    /\ trlTask[2] = "done"
    /\ trl_df[2].validated_trl_citations = <<>>

\* ---- properties of _flatten_solution ----

\* C25 (normalizer title invariant): every row the flattener returns has a title
\* that is present and non-empty, whatever the agent name and whatever keys the
\* object carries.
C25_FlattenedTitlePresent ==
    flat_pc = "done" =>
        /\ flat_row.title.kind = "str"
        /\ flat_row.title.val # <<>>

\* ------------------------------------------------------------------------
\* Specifications
\* ------------------------------------------------------------------------

InitLLM == LLMStart /\ OrchIdle /\ EnrichIdle /\ RegenIdle /\ DedupIdle /\ TrlIdle /\ FlatIdle

NextLLM ==
    \/ LLMLoop /\ UNCHANGED <<orchVars, enrichVars, regenVars, dedupVars, trlVars, flatVars>>
    \/ LLMInvoke /\ UNCHANGED <<orchVars, enrichVars, regenVars, dedupVars, trlVars, flatVars>>
    \/ LLMCheck /\ UNCHANGED <<orchVars, enrichVars, regenVars, dedupVars, trlVars, flatVars>>

SpecLLM == InitLLM /\ [][NextLLM]_vars

=============================================================================
